---- MODULE Spec2Model ----
(***************************************************************************)
(* Model of the node-whatsapi session object (WhatsApi), its request       *)
(* tracker, send queue and media queue, and of the RC4-HMAC KeyStream.     *)
(*                                                                         *)
(* Every JavaScript method is an operator from a session record to the     *)
(* session record after the call; the actions of Next are the entry points *)
(* the caller, the transport and the asynchronous completions can trigger. *)
(***************************************************************************)
EXTENDS Integers, Sequences, FiniteSets, TLC

(* ---------------------------------------------------------------------- *)
(* Bounds                                                                  *)
(* ---------------------------------------------------------------------- *)
MaxSubmit == 2        \* message-send calls made by the caller
MaxCallbacks == 2     \* tracked requests issued by the caller

(* ---------------------------------------------------------------------- *)
(* Nodes                                                                   *)
(* ---------------------------------------------------------------------- *)
Self == "self@s.whatsapp.net"
Peer == "peer@s.whatsapp.net"
Server == "s.whatsapp.net"

Node(tag, id, type, from, to, child, data) ==
    [tag |-> tag, id |-> id, type |-> type, from |-> from, to |-> to,
     child |-> child, data |-> data, notify |-> FALSE, code |-> 0, text |-> "",
     participant |-> "", others |-> {}]

NoNode == Node("", 0, "", "", "", "", 0)

NodeIds == 1..2       \* ids carried by inbound nodes
Nonces == 1..1        \* nonces carried by challenge and success nodes

\* the inbound nodes of the handshake and inbound messages
InboundNodes ==
    { [Node("message", 1, t[1], f, "", t[2], 0) EXCEPT !.notify = n, !.text = t[3]] :
              f \in {Self, Peer}, n \in BOOLEAN,
              t \in {<<"text", "body", "">>, <<"media", "media", "image">>} }
    \cup { Node("challenge", 0, "", "", "", "", n) : n \in Nonces }
    \cup { Node("success", 0, "", "", "", "", n) : n \in Nonces }
    \cup { Node("failure", 0, "", "", "", "not-authorized", 0) }

\* the inbound nodes that answer tracked requests, and the success node
TrackerNodes ==
    { [Node("iq", i, "error", Server, "", "error", 0) EXCEPT !.code = 401, !.text = "denied"] :
          i \in NodeIds }
    \cup { Node("ack", i, "", Server, "", "", 0) : i \in NodeIds }
    \cup { Node("iq", i, "result", Peer, "", "query", 120) : i \in NodeIds }
    \cup { Node("success", 0, "", "", "", "", n) : n \in Nonces }

\* the inbound nodes of the media upload exchange, and the success node
MediaNodes ==
    { [Node("iq", i, "result", Server, "", c[1], 0) EXCEPT !.text = c[2]] :
              i \in NodeIds,
              c \in {<<"duplicate", "audio">>, <<"duplicate", "image">>, <<"media", "">>} }
    \cup { Node("success", 0, "", "", "", "", n) : n \in Nonces }

\* inbound message nodes with one, two or three children; text carries the
\* type of the media child and others the tags of the children after the first
MessageNodes ==
    { [Node("message", 1, ty, Peer, "", c[1], 0)
          EXCEPT !.notify = n, !.text = mt, !.others = c[2]] :
          ty \in {"text", "media"}, n \in BOOLEAN,
          mt \in {"location", "image", "video", "audio", "vcard", "sticker"},
          c \in {<<"body", {}>>, <<"media", {}>>, <<"body", {"media"}>>,
                 <<"body", {"media", "extra"}>>} }

\* the inbound notification nodes: group notifications and others
NotificationNodes ==
    { [Node("notification", i, ty, Peer, to, c, 0) EXCEPT !.participant = p] :
          i \in NodeIds, ty \in {"w:gp2", "status"}, to \in {"", Self},
          c \in {"create", "add", "subject", "picture"}, p \in {"", Peer} }

\* inbound messages with an enc child; text carries the type of the enc child
EncryptedNodes ==
    { [Node("message", i, "text", f, "", "enc", 0) EXCEPT !.text = ty] :
          i \in NodeIds, f \in {Peer, "other@s.whatsapp.net"}, ty \in {"msg", "pkmsg", "other"} }

\* the inbound ping nodes, and the success node
PingNodes ==
    { Node("iq", i, "get", Server, "", "ping", 0) : i \in NodeIds }
    \cup { Node("success", 0, "", "", "", "", n) : n \in Nonces }

AuthNonces == 1..2    \* nonces that differ from login to login

\* the inbound nodes of the handshake
AuthNodes ==
    { Node("challenge", 0, "", "", "", "", n) : n \in AuthNonces }
    \cup { Node("success", 0, "", "", "", "", n) : n \in AuthNonces }
    \cup { Node("failure", 0, "", "", "", "not-authorized", 0) }

\* Node predicates (protocol.js)
isError(node) == node.tag = "iq" /\ node.child = "error"
shouldBeReplied(node) == node.tag = "message" /\ node.child \in {"body", "media", "enc"}
isMessage(node) == node.tag = "message" /\ node.child \in {"body", "media"}
isNotification(node) == node.tag = "notification"
isAck(node) == node.tag = "ack"
isChallenge(node) == node.tag = "challenge"
isSuccess(node) == node.tag = "success"
isFailure(node) == node.tag = "failure"
isLastSeen(node) == node.tag = "iq" /\ node.child = "query"
isPing(node) == node.tag = "iq" /\ node.type = "get" /\ node.child = "ping"
isMediaReady(node) == node.tag = "iq" /\ node.child \in {"duplicate", "media"}

(* ---------------------------------------------------------------------- *)
(* State                                                                   *)
(* ---------------------------------------------------------------------- *)
VARIABLES
    reconnect,            \* this.config.reconnect
    connected,            \* this.connected
    loggedIn,             \* this.loggedIn
    messageId,            \* this.messageId
    queue,                \* this.queue: sequence of {to, node}
    mediaQueue,           \* this.mediaQueue: entries keyed by iq id
    callbacksCollection,  \* this.callbacksCollection: sequence of {id, callback}
    connectCallback,      \* this.connectCallback (FALSE: null)
    loginCallback,        \* this.loginCallback (FALSE: null)
    readerKey,            \* this.readerKey (a KeyStream, or NoKeyStream)
    writerKey,            \* this.writerKey
    readerSet,            \* key installed in this.reader
    writerSet,            \* key installed in this.writer
    challengeFile,        \* content of config.challenge_file (0: empty)
    socket,               \* the transport's socket
    jobs,                 \* asynchronous operations in flight
    enc,                  \* the encryption extension: pending requests, sessions, promises
    out,                  \* effects of the entry point that ran last, in order
    sent,                 \* payload tokens of the message nodes written so far
    invoked,              \* per tracked callback: its request id and number of invocations
    subs,                 \* the caller's message-send calls so far
    failedAttempt,        \* a failure node was processed since the last connect() or login()
    last,                 \* the entry point that ran last
    ksWriter,             \* the KeyStream the peer encodes with
    ksReader,             \* the KeyStream this end decodes with
    wire,                 \* encoded frames in transit, oldest first
    input,                \* the bytes the reader holds, in units of half a frame
    writerKeyNew,         \* this.writerKey was created since login() last started an attempt
    ksLast                \* the KeyStream operation that ran last and its result

vars == <<reconnect, connected, loggedIn, messageId, queue, mediaQueue,
          callbacksCollection, connectCallback, loginCallback, readerKey, writerKey, readerSet,
          writerSet, challengeFile, socket, jobs, enc, out, sent, invoked, subs,
          failedAttempt, last, ksWriter, ksReader, wire, ksLast, input, writerKeyNew>>

ksVars == <<ksWriter, ksReader, wire, ksLast>>

\* the contacts of the encryption extension
Jids == {Peer, "other@s.whatsapp.net"}

\* the fields the encryption extension keeps on the session object; an Axolotl
\* session is the sequence of the operations that advanced it; cached holds
\* this.sessions, record the sessions table of the KeyStore, encrypted the
\* session each ciphertext was made from
EncInit ==
    [pendingGetKeyRequests |-> {}, skipEncJids |-> {}, sessions |-> {},
     pendingMessages |-> [j \in Jids |-> <<>>], promises |-> {}, notified |-> 0,
     requested |-> {}, published |-> {}, resolved |-> {}, stored |-> {},
     keystore |-> {}, received |-> 0,
     cached |-> [j \in Jids |-> <<>>], record |-> [j \in Jids |-> <<>>], encrypted |-> <<>>]

\* the session as one record, with the effects of the new entry point empty
St ==
    [connected |-> connected, loggedIn |-> loggedIn, messageId |-> messageId,
     queue |-> queue, mediaQueue |-> mediaQueue,
     callbacksCollection |-> callbacksCollection,
     connectCallback |-> connectCallback, loginCallback |-> loginCallback,
     readerKey |-> readerKey, writerKey |-> writerKey,
     readerSet |-> readerSet, writerSet |-> writerSet,
     challengeFile |-> challengeFile, socket |-> socket, jobs |-> jobs, enc |-> enc,
     out |-> <<>>, sent |-> sent, invoked |-> invoked, input |-> input,
     writerKeyNew |-> writerKeyNew]

Becomes(s) ==
    /\ connected' = s.connected
    /\ loggedIn' = s.loggedIn
    /\ messageId' = s.messageId
    /\ queue' = s.queue
    /\ mediaQueue' = s.mediaQueue
    /\ callbacksCollection' = s.callbacksCollection
    /\ connectCallback' = s.connectCallback
    /\ loginCallback' = s.loginCallback
    /\ readerKey' = s.readerKey
    /\ writerKey' = s.writerKey
    /\ readerSet' = s.readerSet
    /\ writerSet' = s.writerSet
    /\ challengeFile' = s.challengeFile
    /\ socket' = s.socket
    /\ jobs' = s.jobs
    /\ enc' = s.enc
    /\ out' = s.out
    /\ sent' = s.sent
    /\ invoked' = s.invoked
    /\ input' = s.input
    /\ writerKeyNew' = s.writerKeyNew
    /\ reconnect' = reconnect
    /\ UNCHANGED ksVars

(* ---------------------------------------------------------------------- *)
(* Effects                                                                 *)
(* ---------------------------------------------------------------------- *)
Effect(k, name, node, key, cb, args) ==
    [k |-> k, name |-> name, node |-> node, key |-> key, cb |-> cb, args |-> args,
     li |-> FALSE]

\* transport.send(buffer)
send(s, frame) ==
    [s EXCEPT !.out = Append(@, frame),
              !.sent = IF frame.name = "message" THEN Append(@, frame.node.data) ELSE @]

\* writer.node(node): the frame is encoded with the key installed in the writer
sendNode(s, node) ==
    send(s, [Effect("send", node.tag, node, s.writerSet, 0, <<>>) EXCEPT !.li = s.loggedIn])

emit(s, name, node) ==
    [s EXCEPT !.out = Append(@, [Effect("emit", name, node, 0, 0, <<>>) EXCEPT !.li = s.loggedIn])]

nextMessageId(s) == [s EXCEPT !.messageId = @ + 1]

(* ---------------------------------------------------------------------- *)
(* RequestTracker                                                          *)
(* ---------------------------------------------------------------------- *)
addCallback(s, id, cb) ==
    IF id = 0 \/ cb = 0 THEN s
    ELSE [s EXCEPT !.callbacksCollection = Append(@, [id |-> id, callback |-> cb])]

RECURSIVE executeLoop(_, _, _, _)
executeLoop(s, id, args, i) ==
    IF i > Len(s.callbacksCollection) THEN s
    ELSE LET item == s.callbacksCollection[i] IN
         IF item.id = id
         THEN executeLoop(
                [s EXCEPT !.out = Append(@, Effect("cb", "callback", NoNode, 0, item.callback, args)),
                          !.invoked[item.callback].n = @ + 1,
                          !.callbacksCollection =
                              SubSeq(@, 1, i - 1) \o SubSeq(@, i + 1, Len(@))],
                id, args, i)
         ELSE executeLoop(s, id, args, i + 1)

\* faulty variant of executeCallback: matching callbacks are called but stay tracked
executeCallbackKeep(s, id, args) ==
    LET hits == SelectSeq(s.callbacksCollection, LAMBDA item : item.id = id)
        calls == [i \in 1..Len(hits) |-> Effect("cb", "callback", NoNode, 0, hits[i].callback, args)]
    IN  [s EXCEPT !.out = @ \o calls,
                  !.invoked = [c \in DOMAIN @ |->
                                  IF \E i \in 1..Len(hits) : hits[i].callback = c
                                  THEN [@[c] EXCEPT !.n = @ + 1] ELSE @[c]]]

\* args is the argument array (a single value is wrapped by the caller)
executeCallback(s, id, args) == executeLoop(s, id, args, 1)

(* ---------------------------------------------------------------------- *)
(* SendQueue and message sending                                           *)
(* ---------------------------------------------------------------------- *)
\* faulty variant of sendMessageNode: the message is queued even when logged in
sendMessageNodeAlwaysQueue(s, to, node, msgid) ==
    [s EXCEPT !.queue = Append(@, [to |-> to, node |-> node])]

\* msgid = 0: no message id given by the caller
sendMessageNode(s, to, node, msgid) ==
    IF ~s.loggedIn
    THEN [s EXCEPT !.queue = Append(@, [to |-> to, node |-> node])]
    ELSE LET s1 == IF msgid # 0 THEN s ELSE nextMessageId(s)
             id == IF msgid # 0 THEN msgid ELSE s1.messageId
             messageNode == Node("message", id,
                                 IF node.tag = "body" THEN "text" ELSE "media",
                                 "", to, node.tag, node.data)
         IN  sendNode(s1, messageNode)

RECURSIVE forEachQueued(_, _, _)
forEachQueued(s, q, i) ==
    IF i > Len(q) THEN s
    ELSE forEachQueued(sendMessageNode(s, q[i].to, q[i].node, 0), q, i + 1)

\* faulty variant of flushQueue: the queue is sent last-in first-out
flushQueueReversed(s) ==
    LET q == s.queue
        r == [i \in 1..Len(q) |-> q[Len(q) + 1 - i]]
    IN  forEachQueued([s EXCEPT !.queue = <<>>], r, 1)

flushQueue(s) ==
    LET q == s.queue IN forEachQueued([s EXCEPT !.queue = <<>>], q, 1)

(* ---------------------------------------------------------------------- *)
(* Authentication                                                          *)
(* ---------------------------------------------------------------------- *)
\* encryption.pbkdf2(password, salt, iterations, length) with the configured
\* password and length 20, as a term: the salt is the nonce followed by the
\* byte j (j = 0: the nonce alone); byte = 0 stands for the whole output
pbkdf2(nonce, j, iterations) ==
    [nonce |-> nonce, j |-> j, iterations |-> iterations, byte |-> 0]

\* new Buffer([key[i - 1]]): the one-byte buffer of the i-th byte of key
byteOf(key, i) == [key EXCEPT !.byte = i]

\* a KeyStream of the session, identified by its cipher key and its MAC key
newKeyStream(key, macKey) == [key |-> key, macKey |-> macKey]

\* no KeyStream: null in the reader or writer, undefined in the session
NoKeyStream == newKeyStream(pbkdf2(0, 0, 0), pbkdf2(0, 0, 0))

generateKeys(nonce) == [j \in 1..4 |-> pbkdf2(nonce, j, 2)]

\* faulty variant of initKeys: the keys of the cached challenge are used
initKeysCached(s, nonce) ==
    LET keys == generateKeys(s.challengeFile)
    IN  [s EXCEPT !.readerKey = newKeyStream(keys[3], keys[4]),
                  !.writerKey = newKeyStream(keys[1], keys[2]),
                  !.writerKeyNew = TRUE]

\* new KeyStream pair derived from the nonce
initKeys(s, nonce) ==
    LET keys == generateKeys(nonce)
    IN  [s EXCEPT !.readerKey = newKeyStream(keys[3], keys[4]),
                  !.writerKey = newKeyStream(keys[1], keys[2]),
                  !.writerKeyNew = TRUE]

\* the keys of the cached challenge, when the challenge file is not empty
createAuthData(s) ==
    IF s.challengeFile = 0 THEN s
    ELSE LET key == pbkdf2(s.challengeFile, 0, 16)
             s1 == [s EXCEPT !.readerKey = newKeyStream(byteOf(key, 3), byteOf(key, 4)),
                             !.writerKey = newKeyStream(byteOf(key, 1), byteOf(key, 2)),
                             !.writerKeyNew = TRUE]
         IN  [s1 EXCEPT !.readerSet = s1.readerKey]

createAuthNode(s) == Node("auth", 0, "", "", "", "", s.challengeFile)

createAuthResposeNode(challenge) == Node("response", 0, "", "", "", "", challenge)

\* faulty variant of login: a logged-in session logs in again
loginAgain(s, callback) ==
    LET s1 == [s EXCEPT !.loginCallback = IF callback THEN TRUE ELSE @,
                        !.readerSet = NoKeyStream, !.writerSet = NoKeyStream,
                        !.writerKeyNew = FALSE]
        s2 == sendNode(s1, Node("stream:stream", 0, "", "", "", "", 0))
        s3 == sendNode(s2, Node("stream:features", 0, "", "", "", "", 0))
        s4 == createAuthData(s3)
    IN  sendNode(s4, createAuthNode(s4))

\* faulty variant of login: the writer keystream is left in place
loginKeepWriter(s, callback) ==
    IF s.loggedIn THEN s
    ELSE LET s1 == [s EXCEPT !.loginCallback = IF callback THEN TRUE ELSE @,
                             !.readerSet = NoKeyStream, !.writerKeyNew = FALSE]
             s2 == sendNode(s1, Node("stream:stream", 0, "", "", "", "", 0))
             s3 == sendNode(s2, Node("stream:features", 0, "", "", "", "", 0))
             s4 == createAuthData(s3)
         IN  sendNode(s4, createAuthNode(s4))

login(s, callback) ==
    IF s.loggedIn THEN s
    ELSE LET s1 == [s EXCEPT !.loginCallback = IF callback THEN TRUE ELSE @,
                             !.readerSet = NoKeyStream, !.writerSet = NoKeyStream,
                             !.writerKeyNew = FALSE]
             s2 == sendNode(s1, Node("stream:stream", 0, "", "", "", "", 0))
             s3 == sendNode(s2, Node("stream:features", 0, "", "", "", "", 0))
             s4 == createAuthData(s3)
         IN  sendNode(s4, createAuthNode(s4))

(* ---------------------------------------------------------------------- *)
(* Transport                                                               *)
(* ---------------------------------------------------------------------- *)
\* transport.connect(host, port, onTransportConnect, this)
transportConnect(s) ==
    [s EXCEPT !.socket = "connecting",
              !.out = Append(@, Effect("connect", "transport.connect", NoNode, 0, 0, <<>>))]

\* transport.disconnect()
transportDisconnect(s) ==
    [s EXCEPT !.socket = IF @ = "closed" THEN "closed" ELSE "closing",
              !.out = Append(@, Effect("disconnect", "transport.disconnect", NoNode, 0, 0, <<>>))]

\* faulty variant of connect: the send queue starts again
connectClearingQueue(s, callback) ==
    transportConnect([s EXCEPT !.loggedIn = FALSE, !.queue = <<>>,
                               !.connectCallback = IF callback THEN TRUE ELSE @])

\* faulty variant of connect: the message counter starts again
connectResetting(s, callback) ==
    transportConnect([s EXCEPT !.loggedIn = FALSE, !.messageId = 0,
                               !.connectCallback = IF callback THEN TRUE ELSE @])

connect(s, callback) ==
    transportConnect([s EXCEPT !.loggedIn = FALSE,
                               !.connectCallback = IF callback THEN TRUE ELSE @])

\* faulty variant of disconnect: the tracked callbacks are dropped
disconnectDropping(s) == transportDisconnect([s EXCEPT !.callbacksCollection = <<>>])

disconnect(s) == transportDisconnect(s)

onTransportConnect(s) ==
    LET s1 == emit(s, "connect", NoNode)
        s2 == IF s1.connectCallback
              THEN [s1 EXCEPT !.out = Append(@, Effect("cb", "connectCallback", NoNode, 0, 0, <<>>))]
              ELSE s1
    IN  [s2 EXCEPT !.connected = TRUE]

\* the socket reports an error; ends tells whether an end event is still to
\* come for this socket or the socket is gone without one, as it is when the
\* connection was never made
transportError(s, ends) ==
    [s EXCEPT !.socket = IF ends /\ @ # "connecting" THEN "closing" ELSE "closed"]

onTransportError(s) ==
    LET s1 == IF s.connectCallback
              THEN [s EXCEPT !.out = Append(@, Effect("cb", "connectCallback", NoNode, 0, 0,
                                                      <<[NoNode EXCEPT !.tag = "error"]>>))]
              ELSE s
    IN  emit(s1, IF s.connected THEN "error" ELSE "connectError", NoNode)

\* faulty variant of onTransportEnd: reconnects whatever the configuration
onTransportEndAlways(s, cfgReconnect) ==
    connect(emit([s EXCEPT !.connected = FALSE], "reconnect", NoNode), FALSE)

onTransportEnd(s, cfgReconnect) ==
    LET s1 == [s EXCEPT !.connected = FALSE] IN
    IF cfgReconnect THEN connect(emit(s1, "reconnect", NoNode), FALSE)
    ELSE emit(s1, "end", NoNode)

(* ---------------------------------------------------------------------- *)
(* Requests                                                                *)
(* ---------------------------------------------------------------------- *)
requestLastSeen(s, who, callback) ==
    LET s1 == nextMessageId(s)
        s2 == addCallback(s1, s1.messageId, callback)
    IN  sendNode(s2, Node("iq", s1.messageId, "get", "", who, "query", 0))

(* ---------------------------------------------------------------------- *)
(* Presence                                                                *)
(* ---------------------------------------------------------------------- *)
\* faulty variant of sendIsOnline: nothing is written before login
sendIsOnlineLoggedIn(s) ==
    IF s.loggedIn THEN sendNode(s, Node("presence", 0, "", "", "", "", 0)) ELSE s

sendIsOnline(s) == sendNode(s, Node("presence", 0, "", "", "", "", 0))

sendIsOffline(s) == sendNode(s, Node("presence", 0, "unavailable", "", "", "", 0))

(* ---------------------------------------------------------------------- *)
(* MediaRequestQueue                                                       *)
(* ---------------------------------------------------------------------- *)
Job(stage, tok, to) == [stage |-> stage, tok |-> tok, to |-> to, session |-> <<>>]

\* this.getMediaFile(...) is started; its callback runs later
sendMedia(s, to, tok) == [s EXCEPT !.jobs = @ \cup {Job("file", tok, to)}]

\* returns the session with the entry recorded; the iq node has id messageId
createRequestMediaUploadNode(s, tok, to) ==
    LET s1 == nextMessageId(s) IN
    [s1 EXCEPT !.mediaQueue =
        {e \in @ : e.id # s1.messageId} \cup {[id |-> s1.messageId, to |-> to, tok |-> tok]}]

\* callback of getMediaFile in sendMedia
onMediaFile(s, job, err) ==
    LET s0 == [s EXCEPT !.jobs = @ \ {job}] IN
    IF err THEN emit(s0, "media.error", NoNode)
    ELSE LET s1 == createRequestMediaUploadNode(s0, job.tok, job.to)
         IN  sendNode(s1, Node("iq", s1.messageId, "set", "", Server, "media", job.tok))

\* callback given to createMediaUploadNode by processNode
onMediaUploadNode(s, err, to, tok) ==
    IF err THEN emit(s, "media.error", NoNode)
    ELSE sendMessageNode(s, to, Node("media", 0, "", "", "", "", tok), 0)

\* callback given to createMediaUploadNode by the processNode submodule: on
\* an error it calls callback, a name that is not defined in that scope
mediaReadyCallback(s, err, to, tok) ==
    IF err THEN [s EXCEPT !.out = Append(@, Effect("throw", "ReferenceError", NoNode, 0, 0, <<>>))]
    ELSE sendMessageNode(s, to, Node("media", 0, "", "", "", "", tok), 0)

\* faulty variant of createMediaUploadNode: the entry stays in the media queue
createMediaUploadNodeKeep(s, node) ==
    LET hit == {e \in s.mediaQueue : e.id = node.id} IN
    IF hit = {} THEN s
    ELSE LET queued == CHOOSE e \in hit : TRUE
         IN  IF node.child = "duplicate" /\ node.text # "image"
             THEN onMediaUploadNode(s, FALSE, queued.to, queued.tok)
             ELSE [s EXCEPT !.jobs = @ \cup {Job("upload", queued.tok, queued.to)}]

createMediaUploadNode(s, node) ==
    LET hit == {e \in s.mediaQueue : e.id = node.id} IN
    IF hit = {} THEN s
    ELSE LET queued == CHOOSE e \in hit : TRUE
             s1 == [s EXCEPT !.mediaQueue = @ \ {queued}]
         IN  IF node.child = "duplicate" /\ node.text # "image"
             THEN onMediaUploadNode(s1, FALSE, queued.to, queued.tok)
             ELSE [s1 EXCEPT !.jobs = @ \cup {Job("upload", queued.tok, queued.to)}]

(* ---------------------------------------------------------------------- *)
(* End-to-end encrypted send                                               *)
(* ---------------------------------------------------------------------- *)
\* keystore.storeSession(recipientId, 1, session)
storeSession(s, jid, session) ==
    [s EXCEPT !.enc.keystore = @ \cup {jid}, !.enc.record[jid] = session]

\* axolotl.encryptMessage(this.sessions[jid], ...) is started on the session
\* cached at the time of the call; its promise settles later
sendEncryptedMessage(s, jid, tok) ==
    [s EXCEPT !.jobs = @ \cup {[Job("encrypt", tok, jid) EXCEPT !.session = s.enc.cached[jid]]}]

\* the promise settles: the session of the ciphertext is cached and stored,
\* and the enc node is sent; an error is only logged
onEncrypted(s, job, err) ==
    LET s0 == [s EXCEPT !.jobs = @ \ {job}] IN
    IF err THEN s0
    ELSE LET session == Append(job.session, "encrypt")
             s1 == [s0 EXCEPT !.enc.sessions = @ \cup {job.to},
                              !.enc.cached[job.to] = session,
                              !.enc.encrypted = Append(@, [jid |-> job.to, session |-> job.session])]
             s2 == storeSession(s1, job.to, session)
         IN  sendMessageNode(s2, job.to, Node("enc", 0, "", "", "", "", job.tok), 0)

(* ---------------------------------------------------------------------- *)
(* Pre-key publication                                                     *)
(* ---------------------------------------------------------------------- *)
COUNT_PREKEYS == 200

\* a pending promise of the encryption extension
Promise(stage, jid, fresh, count, node) ==
    [stage |-> stage, jid |-> jid, fresh |-> fresh, count |-> count, node |-> node,
     session |-> <<>>]

\* the promises of sendKeys are started; for is the node that caused the call
sendKeys(s, fresh, countPreKeys, for) ==
    [s EXCEPT !.enc.promises = @ \cup {Promise("sendKeys", "", fresh, countPreKeys, for)}]

\* number of pre-keys of generatePreKeys(start, countPreKeys || _COUNT_PREKEYS)
generatePreKeysCount(countPreKeys) ==
    IF countPreKeys # 0 THEN countPreKeys ELSE COUNT_PREKEYS

\* data carries the number of key children and text where the identity key
\* pair and the registration id come from
createSendKeysNode(s, fresh, preKeys) ==
    [Node("iq", s.messageId, "set", "", Server, "list", preKeys)
        EXCEPT !.text = IF fresh THEN "generated" ELSE "stored"]

\* what persistKeys hands to the keystore
StoreStages == {"storeLocalData", "storeSignedPreKey", "storePreKey"}

\* the stores are started and the returned promise is resolved at once; id
\* is the id of the publication the keys belong to
persistKeys(s, id, fresh) ==
    [s EXCEPT !.enc.promises =
                  @ \cup {Promise(st, "", fresh, 0, [NoNode EXCEPT !.id = id]) : st \in StoreStages},
              !.enc.resolved = @ \cup {id}]

\* a store of the keystore settles; an error is only logged
onStore(s, promise, err) ==
    LET s0 == [s EXCEPT !.enc.promises = @ \ {promise}] IN
    IF err THEN s0
    ELSE [s0 EXCEPT !.enc.stored = @ \cup {[stage |-> promise.stage, id |-> promise.node.id]}]

\* the promises of sendKeys settle
onSendKeys(s, promise, err) ==
    LET s0 == [s EXCEPT !.enc.promises = @ \ {promise}] IN
    IF err THEN s0
    ELSE LET s1 == nextMessageId(s0)
             s2 == sendNode(s1, createSendKeysNode(s1, promise.fresh,
                                                   generatePreKeysCount(promise.count)))
         IN  persistKeys([s2 EXCEPT !.enc.published = @ \cup {s1.messageId}],
                         s1.messageId, promise.fresh)

\* count is the value attribute of the count child, carried in node.data
processEncryptNotification(s, node) ==
    sendKeys([s EXCEPT !.enc.notified = @ + 1], FALSE, COUNT_PREKEYS - node.data, node)

(* ---------------------------------------------------------------------- *)
(* Pre-key fetch and pending messages                                      *)
(* ---------------------------------------------------------------------- *)
RECURSIVE forEachPending(_, _, _, _)
forEachPending(s, jid, q, i) ==
    IF i > Len(q) THEN s
    ELSE forEachPending(
            IF jid \in s.enc.skipEncJids
            THEN sendMessageNode(s, jid, Node("body", 0, "", "", "", "", q[i]), 0)
            ELSE sendEncryptedMessage(s, jid, q[i]),
            jid, q, i + 1)

\* the pending plaintexts of jid are sent, unencrypted when jid is marked
\* skip-encryption, and the pending list of jid is emptied
processPendingMessages(s, jid) ==
    LET q == s.enc.pendingMessages[jid]
    IN  forEachPending([s EXCEPT !.enc.pendingMessages[jid] = <<>>], jid, q, 1)

\* a plaintext for a contact without cached session is kept until keys are known
enqueuePending(s, jid, tok) == [s EXCEPT !.enc.pendingMessages[jid] = Append(@, tok)]

getKeys(s, jids) ==
    LET s1 == nextMessageId(s)
        s2 == [s1 EXCEPT !.enc.pendingGetKeyRequests =
                  {r \in @ : r.id # s1.messageId} \cup {[id |-> s1.messageId, jids |-> jids]}]
    IN  sendNode(s2, [Node("iq", s1.messageId, "get", "", Server, "key", 0) EXCEPT !.others = jids])

\* keystore.loadSession(jid, 1) is started
getSession(s, jid) ==
    [s EXCEPT !.enc.promises = @ \cup {Promise("loadSession", jid, FALSE, 0, NoNode)}]

\* keystore.loadSession settles: result tells whether a session was stored
onLoadSession(s, promise, result, err) ==
    LET s0 == [s EXCEPT !.enc.promises = @ \ {promise}] IN
    IF err THEN s0
    ELSE IF result
         THEN processPendingMessages(
                 [s0 EXCEPT !.enc.sessions = @ \cup {promise.jid},
                            !.enc.cached[promise.jid] = s0.enc.record[promise.jid]],
                 promise.jid)
         ELSE getKeys(s0, {promise.jid})

RECURSIVE forEachRequested(_, _, _)
forEachRequested(s, jids, node) ==
    IF jids = {} THEN s
    ELSE LET jid == CHOOSE j \in jids : TRUE
             s1 == IF jid \notin node.others
                   THEN processPendingMessages([s EXCEPT !.enc.skipEncJids = @ \cup {jid}], jid)
                   ELSE [s EXCEPT !.enc.promises =
                            @ \cup {Promise("createSession", jid, FALSE, 0, node)}]
         IN  forEachRequested(s1, jids \ {jid}, node)

\* others carries the jid of every user child of the list; with no request
\* recorded under the id, jids is undefined and jids.forEach throws
processGetKeysResponse(s, node) ==
    LET hit == {r \in s.enc.pendingGetKeyRequests : r.id = node.id} IN
    IF hit = {}
    THEN [s EXCEPT !.out = Append(@, Effect("throw", "TypeError", node, 0, 0, <<>>))]
    ELSE LET r == CHOOSE r \in hit : TRUE
             s1 == [s EXCEPT !.enc.pendingGetKeyRequests = @ \ {r},
                             !.enc.requested = r.jids]
         IN  forEachRequested(s1, r.jids, node)

\* axolotl.createSessionFromPreKeyBundle settles; an error is only logged
onCreateSession(s, promise, err) ==
    LET s0 == [s EXCEPT !.enc.promises = @ \ {promise}] IN
    IF err THEN s0
    ELSE processPendingMessages(
            [s0 EXCEPT !.enc.sessions = @ \cup {promise.jid}, !.enc.cached[promise.jid] = <<"bundle">>],
            promise.jid)

(* ---------------------------------------------------------------------- *)
(* MessageProcessor                                                        *)
(* ---------------------------------------------------------------------- *)
\* node.child(tag) is defined
hasChild(node, tag) == node.child = tag \/ tag \in node.others

TextMatch(node) == node.notify /\ node.type = "text" /\ hasChild(node, "body")

LocationMatch(node) == node.notify /\ hasChild(node, "media") /\ node.text = "location"

MediaMatch(node, type) == node.notify /\ hasChild(node, "media") /\ node.text = type

\* the media type of an inbound media child is carried in node.text
ImageMatch(node) == MediaMatch(node, "image")

\* the processors of createProcessor(), in order
Processors == <<"text", "location", "image", "video", "audio", "vcard">>

match(processor, node) ==
    CASE processor = "text" -> TextMatch(node)
      [] processor = "location" -> LocationMatch(node)
      [] OTHER -> MediaMatch(node, processor)

EventOf(processor) ==
    CASE processor = "text" -> "message"
      [] processor = "location" -> "receivedLocation"
      [] processor = "image" -> "receivedImage"
      [] processor = "video" -> "receivedVideo"
      [] processor = "audio" -> "message.audio"
      [] OTHER -> "receivedVcard"

\* Audio.process reads node.child(2), which is undefined with fewer than
\* three children
Throws(processor, node) == processor = "audio" /\ Cardinality(node.others) < 2

RECURSIVE forEachProcessor(_, _, _)
forEachProcessor(s, node, i) ==
    IF i > Len(Processors) THEN s
    ELSE IF match(Processors[i], node)
         THEN IF Throws(Processors[i], node)
              THEN [s EXCEPT !.out = Append(@, Effect("throw", "TypeError", node, 0, 0, <<>>))]
              ELSE forEachProcessor(emit(s, EventOf(Processors[i]), node), node, i + 1)
         ELSE forEachProcessor(s, node, i + 1)

\* faulty variant of process: the first matching processor wins
processFirstMatch(s, node) ==
    IF \E i \in 1..Len(Processors) : match(Processors[i], node)
    THEN LET i == CHOOSE i \in 1..Len(Processors) :
                     /\ match(Processors[i], node)
                     /\ \A j \in 1..(i - 1) : ~match(Processors[j], node)
         IN  IF Throws(Processors[i], node)
             THEN [s EXCEPT !.out = Append(@, Effect("throw", "TypeError", node, 0, 0, <<>>))]
             ELSE emit(s, EventOf(Processors[i]), node)
    ELSE s

process(s, node) == forEachProcessor(s, node, 1)

(* ---------------------------------------------------------------------- *)
(* processNode                                                             *)
(* ---------------------------------------------------------------------- *)
\* faulty variant of createReceiptNode: the receipt does not carry the message id
createReceiptNodeNoId(node) == Node("receipt", 0, "read", "", node.from, "", 0)

createReceiptNode(node) == Node("receipt", node.id, "read", "", node.from, "", 0)

(* ---------------------------------------------------------------------- *)
(* Inbound encrypted messages                                              *)
(* ---------------------------------------------------------------------- *)
\* faulty variant of onDecrypted: a failed decryption is delivered as well
onDecryptedAlways(s, promise, err) ==
    LET s0 == [s EXCEPT !.enc.promises = @ \ {promise}]
    IN  emit(storeSession(s0, promise.jid, Append(promise.session, "decrypt")),
             "receivedMessage", promise.node)

\* axolotl.decryptWhisperMessage / decryptPreKeyWhisperMessage settles:
\* onMessageDecrypted on success, a log line on failure
onDecrypted(s, promise, err) ==
    LET s0 == [s EXCEPT !.enc.promises = @ \ {promise}] IN
    IF err THEN s0
    ELSE emit(storeSession(s0, promise.jid, Append(promise.session, "decrypt")),
              "receivedMessage", promise.node)

\* keystore.loadSession(jid, 1) settles for a message of type msg; fresh
\* records that a session was found (null otherwise); a rejection is not
\* handled by anything
onSessionLoaded(s, promise, err) ==
    LET s0 == [s EXCEPT !.enc.promises = @ \ {promise}] IN
    IF err THEN s0
    ELSE [s0 EXCEPT !.enc.promises =
             @ \cup {[Promise("decrypt", promise.jid, promise.jid \in s.enc.keystore, 0,
                              promise.node) EXCEPT !.session = s.enc.record[promise.jid]]}]

processEncryptedMessage(s, node) ==
    LET s1 == sendNode([s EXCEPT !.enc.received = @ + 1], createReceiptNode(node)) IN
    IF node.text = "msg"
    THEN [s1 EXCEPT !.enc.promises = @ \cup {Promise("loadSession1", node.from, FALSE, 0, node)}]
    ELSE IF node.text = "pkmsg"
    THEN [s1 EXCEPT !.enc.promises = @ \cup {Promise("decrypt", node.from, TRUE, 0, node)}]
    ELSE s1

\* faulty variant of ErrorOf: the error code is lost
ErrorOfNoCode(node) == [NoNode EXCEPT !.tag = "error", !.text = node.text]

ErrorOf(node) == [NoNode EXCEPT !.tag = "error", !.code = node.code, !.text = node.text]

\* a JavaScript number as a fraction; NaN has denominator 0
Num(n, d) == [num |-> n, den |-> d]

\* millisecondsAgo is read before it is assigned (undefined * 1000 is NaN), so
\* date is an invalid Date; secondsAgo is the seconds attribute divided by 1000
LastSeenOf(node) ==
    [tag |-> "lastSeen", from |-> node.from, date |-> Num(0, 0),
     secondsAgo |-> Num(node.data, 1000)]

\* faulty variant of onSuccess: login is emitted before the queue is flushed
onSuccessEmitFirst(s, node) ==
    LET s1 == [s EXCEPT !.challengeFile = node.data, !.writerSet = s.writerKey]
        s2 == [s1 EXCEPT !.loggedIn = TRUE]
        s3 == emit(s2, "login", NoNode)
    IN  flushQueue(s3)

onSuccess(s, node) ==
    LET s1 == [s EXCEPT !.challengeFile = node.data, !.writerSet = s.writerKey]
        s2 == [s1 EXCEPT !.loggedIn = TRUE]
        s3 == flushQueue(s2)
        s4 == emit(s3, "login", NoNode)
    IN  IF s4.loginCallback
        THEN [s4 EXCEPT !.out = Append(@, Effect("cb", "loginCallback", NoNode, 0, 0, <<>>))]
        ELSE s4

\* faulty variant of onFailure: the error is not emitted
onFailureSilent(s, node) == [s EXCEPT !.loggedIn = FALSE]

onFailure(s, node) ==
    LET s1 == [s EXCEPT !.loggedIn = FALSE]
        s2 == emit(s1, "error", node)
    IN  IF s2.loginCallback
        THEN [s2 EXCEPT !.out = Append(@, Effect("cb", "loginCallback", NoNode, 0, 0, <<node>>))]
        ELSE s2

\* faulty variant of createNotificationAckNode: the participant is not mirrored
createNotificationAckNodeNoParticipant(node) ==
    [Node("ack", node.id, node.type, node.to, node.from, "", 0) EXCEPT !.text = "notification"]

\* the class of the ack is carried in text
createNotificationAckNode(node) ==
    [Node("ack", node.id, node.type, node.to, node.from, "", 0)
        EXCEPT !.text = "notification", !.participant = node.participant]

onNotification(s, node) ==
    LET s1 == sendNode(s, createNotificationAckNode(node)) IN
    IF node.type = "w:gp2"
    THEN IF node.child = "create" THEN emit(s1, "notificationGroupCreated", node)
         ELSE IF node.child \in {"add", "remove", "promote", "demote"}
              THEN emit(s1, "notificationGroupParticipantsChanged", node)
         ELSE IF node.child = "subject" THEN emit(s1, "notificationGroupSubjectChanged", node)
         ELSE s1
    ELSE s1

onChallenge(s, node) ==
    LET s1 == initKeys(s, node.data)
        s2 == sendNode(s1, createAuthResposeNode(node.data))
    IN  [s2 EXCEPT !.readerSet = s2.readerKey, !.writerSet = s2.writerKey]

onMessage(s, node) ==
    LET s1 == IF node.type = "text" THEN emit(s, "typing", node) ELSE s
    IN  process(s1, node)

\* faulty variant of createPongNode: the pong carries no id
createPongNodeNoId(id) == Node("iq", 0, "result", "", Server, "", 0)

createPongNode(id) == Node("iq", id, "result", "", Server, "", 0)

processNode(s, node) ==
    IF isError(node) THEN executeCallback(s, node.id, <<ErrorOf(node)>>)
    ELSE LET s1 == IF shouldBeReplied(node) /\ node.from # Self
                   THEN sendNode(s, createReceiptNode(node)) ELSE s
         IN  IF isNotification(node) THEN onNotification(s1, node)
             ELSE IF isAck(node) THEN executeCallback(s1, node.id, <<>>)
             ELSE IF isChallenge(node) THEN onChallenge(s1, node)
             ELSE IF isSuccess(node) THEN onSuccess(s1, node)
             ELSE IF isFailure(node) THEN onFailure(s1, node)
             ELSE IF isLastSeen(node) THEN executeCallback(s1, node.id, <<LastSeenOf(node)>>)
             ELSE IF isPing(node) THEN sendNode(s1, createPongNode(node.id))
             ELSE IF isMediaReady(node) THEN createMediaUploadNode(s1, node)
             ELSE IF isMessage(node) THEN onMessage(s1, node)
             ELSE s1

(* ---------------------------------------------------------------------- *)
(* Transport data                                                          *)
(* ---------------------------------------------------------------------- *)
\* the encoding of a node reaches the reader in two parts; a frame that holds
\* no node comes in one part
Unit(node, part) == [node |-> node, part |-> part]

NullFrame == Unit(NoNode, 0)

\* the nodes the peer sends in chunks: pings and a text message
DataNodes ==
    { Node("iq", i, "get", Server, "", "ping", 0) : i \in NodeIds }
    \cup { Node("message", 3, "text", Peer, "", "body", 0) }

Units == { Unit(n, p) : n \in DataNodes, p \in 1..2 } \cup {NullFrame}

\* reader.appendInput(data)
appendInput(s, data) == [s EXCEPT !.input = @ \o data]

\* reader.nextNode(): the node of the first frame, null for a frame without
\* a node, false while the first frame is not complete
nextNode(s) ==
    IF Len(s.input) = 0 THEN [kind |-> "false", node |-> NoNode, s |-> s]
    ELSE IF s.input[1].part = 0
    THEN [kind |-> "null", node |-> NoNode, s |-> [s EXCEPT !.input = Tail(@)]]
    ELSE IF Len(s.input) >= 2
    THEN [kind |-> "node", node |-> s.input[1].node,
          s |-> [s EXCEPT !.input = SubSeq(@, 3, Len(@))]]
    ELSE [kind |-> "false", node |-> NoNode, s |-> s]

\* faulty variant of nextNodes: the loop ends after the first node
RECURSIVE nextNodesOnce(_)
nextNodesOnce(s) ==
    LET r == nextNode(s)
    IN  IF r.kind = "false" THEN s
        ELSE IF r.kind = "node" THEN processNode(r.s, r.node)
        ELSE nextNodesOnce(r.s)

\* the loop of onTransportData
RECURSIVE nextNodes(_)
nextNodes(s) ==
    LET r == nextNode(s)
    IN  IF r.kind = "false" THEN s
        ELSE IF r.kind = "node" THEN nextNodes(processNode(r.s, r.node))
        ELSE nextNodes(r.s)

onTransportData(s, data) == nextNodes(appendInput(s, data))

\* the byte stream of the peer is a sequence of whole frames
RECURSIVE WellFormed(_)
WellFormed(stream) ==
    IF Len(stream) = 0 THEN TRUE
    ELSE IF stream[1].part = 0 THEN WellFormed(Tail(stream))
    ELSE IF stream[1].part = 2 THEN FALSE
    ELSE Len(stream) = 1
         \/ (stream[2] = Unit(stream[1].node, 2) /\ WellFormed(SubSeq(stream, 3, Len(stream))))

(* ---------------------------------------------------------------------- *)
(* KeyStream                                                               *)
(* ---------------------------------------------------------------------- *)
\* bytes are modelled as bits, so that xor is addition modulo 2
Bits == 0..1

\* number of MAC bytes carried by a frame
MacLen == 4

\* keystream bytes discarded when the engine is initialised
Drop == 768

\* rc4.Engine: byte of the keystream of key at position pos
KeyBit(key, pos) == (key + (pos * (pos + 1)) \div 2) % 2

\* new KeyStream(key, macKey)
KeyStream(key, macKey) == [key |-> key, macKey |-> macKey, seq |-> 0, pos |-> Drop]

slice(buffer, from, to) == SubSeq(buffer, from + 1, to)

\* rc4engine.cipher(buffer, offset, length): the range is xored with the
\* keystream in place and the engine advances by length
cipher(ks, buffer, offset, length) ==
    [ks   |-> [ks EXCEPT !.pos = @ + length],
     data |-> [i \in 1..Len(buffer) |->
                  IF i > offset /\ i <= offset + length
                  THEN (buffer[i] + KeyBit(ks.key, ks.pos + (i - offset - 1))) % 2
                  ELSE buffer[i]]]

RECURSIVE Weigh(_, _)
Weigh(data, i) == IF i > Len(data) THEN 0 ELSE (i + 1) * data[i] + Weigh(data, i + 1)

\* the digest of the HMAC keyed with macKey over data followed by seq
Digest(macKey, data, seq) ==
    LET h == (7 * macKey + 5 * seq + Weigh(data, 1) + Len(data)) % 16
    IN  <<h \div 8, (h \div 4) % 2, (h \div 2) % 2, h % 2>>

\* faulty variant of computeMac: the sequence counter is not advanced
computeMacKeepSeq(ks, buffer, offset, length) ==
    [ks  |-> ks,
     mac |-> Digest(ks.macKey, slice(buffer, offset, offset + length), ks.seq)]

computeMac(ks, buffer, offset, length) ==
    [ks  |-> [ks EXCEPT !.seq = @ + 1],
     mac |-> Digest(ks.macKey, slice(buffer, offset, offset + length), ks.seq)]

encodeMessage(ks, buffer, macOffset, offset, length) ==
    LET c == cipher(ks, buffer, offset, length)
        m == computeMac(c.ks, c.data, offset, length)
    IN  [ks   |-> m.ks,
         data |-> slice(c.data, 0, macOffset) \o slice(m.mac, 0, MacLen)
                    \o slice(c.data, macOffset + MacLen, Len(c.data))]

\* faulty variant of decodeMessage: the whole buffer is deciphered
decodeMessageWholeBuffer(ks, buffer, macOffset, offset, length) ==
    LET m == computeMac(ks, buffer, offset, length)
        c == cipher(m.ks, buffer, 0, Len(buffer))
    IN  [ks |-> c.ks, data |-> c.data, thrown |-> FALSE]

\* the computed mac is not compared with the bytes at macOffset
decodeMessage(ks, buffer, macOffset, offset, length) ==
    LET m == computeMac(ks, buffer, offset, length)
        c == cipher(m.ks, buffer, offset, length)
    IN  [ks |-> c.ks, data |-> c.data, thrown |-> FALSE]

(* ---------------------------------------------------------------------- *)
(* Entry points                                                            *)
(* ---------------------------------------------------------------------- *)
Op(name, node) == [op |-> name, node |-> node]

Init ==
    /\ reconnect \in BOOLEAN
    /\ connected = FALSE
    /\ loggedIn = FALSE
    /\ messageId = 0
    /\ queue = <<>>
    /\ mediaQueue = {}
    /\ callbacksCollection = <<>>
    /\ connectCallback = FALSE
    /\ loginCallback = FALSE
    /\ readerKey = NoKeyStream
    /\ writerKey = NoKeyStream
    /\ readerSet = NoKeyStream
    /\ writerSet = NoKeyStream
    /\ challengeFile \in {0} \cup Nonces
    /\ socket = "closed"
    /\ jobs = {}
    /\ enc = EncInit
    /\ out = <<>>
    /\ sent = <<>>
    /\ invoked = <<>>
    /\ subs = <<>>
    /\ failedAttempt = FALSE
    /\ last = Op("init", NoNode)
    /\ ksWriter = KeyStream(0, 0)
    /\ ksReader = KeyStream(0, 0)
    /\ wire = <<>>
    /\ input = <<>>
    /\ writerKeyNew = FALSE
    /\ ksLast = [op |-> "init", macOk |-> TRUE, thrown |-> FALSE, data |-> <<>>, plain |-> <<>>, n |-> 0]

Submit(kind) == Append(subs, [kind |-> kind, li |-> loggedIn])

\* the caller calls connect()
Connect ==
    /\ socket = "closed"
    /\ \E callback \in BOOLEAN : Becomes(connect(St, callback))
    /\ subs' = subs
    /\ failedAttempt' = FALSE
    /\ last' = Op("connect", NoNode)

\* the caller calls disconnect()
Disconnect ==
    /\ socket \in {"connecting", "open"}
    /\ Becomes(disconnect(St))
    /\ subs' = subs
    /\ failedAttempt' = failedAttempt
    /\ last' = Op("disconnect", NoNode)

\* the caller calls login(callback)
Login ==
    /\ socket = "open"
    /\ \E callback \in BOOLEAN : Becomes(login(St, callback))
    /\ subs' = subs
    /\ failedAttempt' = IF loggedIn THEN failedAttempt ELSE FALSE
    /\ last' = Op("login", NoNode)

\* the caller calls sendMessage(to, message) or sendLocation(to, ...)
SendMessage ==
    /\ Len(subs) < MaxSubmit
    /\ \E kind \in {"body", "media"} :
          /\ Becomes(sendMessageNode(St, Peer, Node(kind, 0, "", "", "", "", Len(subs) + 1), 0))
          /\ subs' = Submit(IF kind = "body" THEN "text" ELSE "location")
    /\ failedAttempt' = failedAttempt
    /\ last' = Op("sendMessage", NoNode)

\* the msgid the caller gives with send tok; ids of the counter are positive
MsgIdOf(tok) == 0 - tok

\* the caller calls sendMessage(to, message, msgid)
SendMessageWithId ==
    /\ Len(subs) < MaxSubmit
    /\ Becomes(sendMessageNode(St, Peer, Node("body", 0, "", "", "", "", Len(subs) + 1),
                               MsgIdOf(Len(subs) + 1)))
    /\ subs' = Submit("textWithId")
    /\ failedAttempt' = failedAttempt
    /\ last' = Op("sendMessage", NoNode)

\* the recipient of the media send tok: consecutive sends go to different contacts
RecipientOf(tok) == IF tok % 2 = 1 THEN Peer ELSE "other@s.whatsapp.net"

\* the caller calls sendImage / sendVideo / sendAudio
SendMedia ==
    /\ Len(subs) < MaxSubmit
    /\ Becomes(sendMedia(St, RecipientOf(Len(subs) + 1), Len(subs) + 1))
    /\ subs' = Submit("media")
    /\ failedAttempt' = failedAttempt
    /\ last' = Op("sendMedia", NoNode)

\* the caller calls sendEncryptedMessage(jid, message)
SendEncrypted ==
    /\ Len(subs) < MaxSubmit
    /\ Becomes(sendEncryptedMessage(St, Peer, Len(subs) + 1))
    /\ subs' = Submit("encrypted")
    /\ failedAttempt' = failedAttempt
    /\ last' = Op("sendEncryptedMessage", NoNode)

\* the caller calls requestLastSeen(who, callback)
RequestLastSeen ==
    /\ Len(invoked) < MaxCallbacks
    /\ Becomes(requestLastSeen([St EXCEPT !.invoked = Append(@, [id |-> messageId + 1, n |-> 0])],
                                Peer, Len(invoked) + 1))
    /\ subs' = subs
    /\ failedAttempt' = failedAttempt
    /\ last' = Op("requestLastSeen", NoNode)

\* the socket connects
OnTransportConnect ==
    /\ socket = "connecting"
    /\ Becomes(onTransportConnect([St EXCEPT !.socket = "open"]))
    /\ subs' = subs
    /\ failedAttempt' = failedAttempt
    /\ last' = Op("onTransportConnect", NoNode)

\* the socket ends
OnTransportEnd ==
    /\ socket \in {"open", "closing"}
    /\ Becomes(onTransportEnd([St EXCEPT !.socket = "closed"], reconnect))
    /\ subs' = subs
    /\ failedAttempt' = IF reconnect THEN FALSE ELSE failedAttempt
    /\ last' = Op("onTransportEnd", NoNode)

\* the socket reports an error
OnTransportError ==
    /\ socket \in {"connecting", "open", "closing"}
    /\ \E ends \in BOOLEAN : Becomes(onTransportError(transportError(St, ends)))
    /\ subs' = subs
    /\ failedAttempt' = failedAttempt
    /\ last' = Op("onTransportError", NoNode)

\* the reader yields one inbound node
OnTransportData(nodes) ==
    /\ socket \in {"open", "closing"}
    /\ \E node \in nodes :
          /\ Becomes(processNode(St, node))
          /\ last' = Op("processNode", node)
          /\ failedAttempt' = (failedAttempt \/ isFailure(node))
    /\ subs' = subs

MaxChunk == 4    \* units in one chunk of transport data

\* the chunks the transport can deliver next
Chunks ==
    { c \in UNION { [1..n -> Units] : n \in 1..MaxChunk } : WellFormed(input \o c) }

\* the transport delivers a chunk of data
OnTransportChunk ==
    /\ socket \in {"open", "closing"}
    /\ \E data \in Chunks :
          /\ Becomes(onTransportData(St, data))
          /\ last' = [op |-> "onTransportData", node |-> NoNode, data |-> data]
    /\ subs' = subs
    /\ failedAttempt' = failedAttempt

\* getMediaFile calls back
OnMediaFile ==
    /\ \E job \in jobs, err \in BOOLEAN :
          /\ job.stage = "file"
          /\ Becomes(onMediaFile(St, job, err))
    /\ subs' = subs
    /\ failedAttempt' = failedAttempt
    /\ last' = Op("onMediaFile", NoNode)

\* uploadMediaFile and the thumbnailer call back
OnMediaUpload ==
    /\ \E job \in jobs, err \in BOOLEAN :
          /\ job.stage = "upload"
          /\ Becomes(onMediaUploadNode([St EXCEPT !.jobs = @ \ {job}], err, job.to, job.tok))
    /\ subs' = subs
    /\ failedAttempt' = failedAttempt
    /\ last' = Op("onMediaUploadNode", NoNode)

\* uploadMediaFile and the thumbnailer call back into the processNode submodule
OnMediaReadyCallback ==
    /\ \E job \in jobs, err \in BOOLEAN :
          /\ job.stage = "upload"
          /\ Becomes(mediaReadyCallback([St EXCEPT !.jobs = @ \ {job}], err, job.to, job.tok))
          /\ last' = Op(IF err THEN "mediaReadyError" ELSE "mediaReadyCallback", NoNode)
    /\ subs' = subs
    /\ failedAttempt' = failedAttempt

\* the promise of axolotl.encryptMessage settles
OnEncrypted ==
    /\ \E job \in jobs, err \in BOOLEAN :
          /\ job.stage = "encrypt"
          /\ Becomes(onEncrypted(St, job, err))
    /\ subs' = subs
    /\ failedAttempt' = failedAttempt
    /\ last' = Op("onEncrypted", NoNode)

\* the handshake, the send queue and inbound messages
Next ==
    \/ Connect
    \/ Disconnect
    \/ Login
    \/ SendMessage
    \/ OnTransportConnect
    \/ OnTransportEnd
    \/ OnTransportData(InboundNodes)

Spec == Init /\ [][Next]_vars

\* the caller calls sendIsOnline() or sendIsOffline()
SendPresence ==
    /\ \/ Becomes(sendIsOnline(St)) /\ last' = Op("sendIsOnline", NoNode)
       \/ Becomes(sendIsOffline(St)) /\ last' = Op("sendIsOffline", NoNode)
    /\ subs' = subs
    /\ failedAttempt' = failedAttempt

\* requests of the caller before and after login
NextPresence ==
    \/ Connect
    \/ Login
    \/ SendMessage
    \/ SendPresence
    \/ RequestLastSeen
    \/ OnTransportConnect
    \/ OnTransportEnd
    \/ OnTransportData({Node("success", 0, "", "", "", "", 1)})

SpecPresence == Init /\ [][NextPresence]_vars

\* transport data in chunks
NextData ==
    \/ Connect
    \/ OnTransportConnect
    \/ OnTransportChunk

SpecData == Init /\ [][NextData]_vars

\* connection loss; the transport delivers the events it owes
NextErr ==
    \/ Connect
    \/ Disconnect
    \/ Login
    \/ OnTransportConnect
    \/ OnTransportError
    \/ OnTransportEnd
    \/ OnTransportData({Node("success", 0, "", "", "", "", n) : n \in Nonces})

SpecErr ==
    Init /\ [][NextErr]_vars /\ WF_vars(OnTransportConnect) /\ WF_vars(OnTransportEnd)

\* keep-alive pings while requests and messages are outstanding
NextPing ==
    \/ Connect
    \/ Disconnect
    \/ SendMessage
    \/ RequestLastSeen
    \/ OnTransportConnect
    \/ OnTransportEnd
    \/ OnTransportData(PingNodes)

SpecPing == Init /\ [][NextPing]_vars

\* text messages with and without a message id of the caller
NextMsgId ==
    \/ Connect
    \/ Login
    \/ SendMessage
    \/ SendMessageWithId
    \/ OnTransportConnect
    \/ OnTransportEnd
    \/ OnTransportData({Node("success", 0, "", "", "", "", n) : n \in Nonces})

SpecMsgId == Init /\ [][NextMsgId]_vars

\* logins with cached and with fresh challenges
NextAuth ==
    \/ Connect
    \/ Disconnect
    \/ Login
    \/ OnTransportConnect
    \/ OnTransportEnd
    \/ OnTransportData(AuthNodes)

SpecAuth == Init /\ [][NextAuth]_vars

\* the request tracker
NextTrack ==
    \/ Connect
    \/ Disconnect
    \/ SendMessage
    \/ RequestLastSeen
    \/ OnTransportConnect
    \/ OnTransportEnd
    \/ OnTransportData(TrackerNodes)

SpecTrack == Init /\ [][NextTrack]_vars

\* message sends of every kind and their asynchronous completions
NextSend ==
    \/ Connect
    \/ SendMessage
    \/ SendMedia
    \/ SendEncrypted
    \/ OnTransportConnect
    \/ OnTransportEnd
    \/ OnTransportData(MediaNodes)
    \/ OnMediaFile
    \/ OnMediaUpload
    \/ OnEncrypted

SpecSend == Init /\ [][NextSend]_vars

MaxNotifications == 2

\* an encrypt notification arrives while no publication is in progress
EncryptNotification ==
    /\ enc.notified < MaxNotifications
    /\ enc.promises = {}
    /\ \E c \in 0..COUNT_PREKEYS :
          LET node == Node("notification", 1, "encrypt", Server, "", "count", c)
          IN  /\ Becomes(processEncryptNotification(St, node))
              /\ last' = Op("processEncryptNotification", node)
    /\ subs' = subs
    /\ failedAttempt' = failedAttempt

\* the key generation promises of sendKeys settle
OnSendKeys ==
    /\ \E promise \in enc.promises, err \in BOOLEAN :
          /\ promise.stage = "sendKeys"
          /\ Becomes(onSendKeys(St, promise, err))
          /\ last' = Op(IF err THEN "onSendKeysError" ELSE "onSendKeys", promise.node)
    /\ subs' = subs
    /\ failedAttempt' = failedAttempt

MaxEncrypted == 2

\* an inbound message with an enc child arrives
EncryptedMessageOf(nodes) ==
    /\ socket \in {"open", "closing"}
    /\ enc.received < MaxEncrypted
    /\ \E node \in nodes :
          /\ Becomes(processEncryptedMessage(St, node))
          /\ last' = Op("processEncryptedMessage", node)
    /\ subs' = subs
    /\ failedAttempt' = failedAttempt

EncryptedMessage == EncryptedMessageOf(EncryptedNodes)

\* keystore.loadSession settles for an inbound message
OnSessionLoaded ==
    /\ \E promise \in enc.promises, err \in BOOLEAN :
          /\ promise.stage = "loadSession1"
          /\ Becomes(onSessionLoaded(St, promise, err))
          /\ last' = Op(IF err THEN "onSessionLoadedError" ELSE "onSessionLoaded", promise.node)
    /\ subs' = subs
    /\ failedAttempt' = failedAttempt

\* the decryption settles; without a session (fresh is FALSE) it can only fail
OnDecrypted ==
    /\ \E promise \in enc.promises, err \in BOOLEAN :
          /\ promise.stage = "decrypt"
          /\ ~promise.fresh => err
          /\ Becomes(onDecrypted(St, promise, err))
          /\ last' = Op(IF err THEN "onDecryptedError" ELSE "onDecrypted", promise.node)
    /\ subs' = subs
    /\ failedAttempt' = failedAttempt

\* inbound encrypted messages
NextDec ==
    \/ Connect
    \/ Disconnect
    \/ OnTransportConnect
    \/ OnTransportEnd
    \/ OnTransportData({Node("success", 0, "", "", "", "", 1)})
    \/ EncryptedMessage
    \/ OnSessionLoaded
    \/ OnDecrypted

SpecDec == Init /\ [][NextDec]_vars

\* a store started by persistKeys settles
OnStore ==
    /\ \E promise \in enc.promises, err \in BOOLEAN :
          /\ promise.stage \in StoreStages
          /\ Becomes(onStore(St, promise, err))
          /\ last' = Op(IF err THEN "onStoreError" ELSE "onStore", promise.node)
    /\ subs' = subs
    /\ failedAttempt' = failedAttempt

\* the caller sends a message to a contact without cached session
SendSecure ==
    /\ Len(subs) < MaxSubmit
    /\ \E jid \in Jids :
          /\ jid \notin enc.sessions \cup enc.skipEncJids
          /\ Becomes(getSession(enqueuePending(St, jid, Len(subs) + 1), jid))
    /\ subs' = Submit("secure")
    /\ failedAttempt' = failedAttempt
    /\ last' = Op("getSession", NoNode)

\* keystore.loadSession settles
OnLoadSession ==
    /\ \E promise \in enc.promises, result \in BOOLEAN, err \in BOOLEAN :
          /\ promise.stage = "loadSession"
          /\ Becomes(onLoadSession(St, promise, result, err))
          /\ last' = Op("onLoadSession", [NoNode EXCEPT !.from = promise.jid])
    /\ subs' = subs
    /\ failedAttempt' = failedAttempt

\* the answer to a pre-key request arrives
GetKeysResponse ==
    /\ socket \in {"open", "closing"}
    /\ \E i \in NodeIds, users \in SUBSET Jids :
          LET node == [Node("iq", i, "result", Server, "", "list", 0) EXCEPT !.others = users]
          IN  /\ Becomes(processGetKeysResponse(St, node))
              /\ last' = Op("processGetKeysResponse", node)
    /\ subs' = subs
    /\ failedAttempt' = failedAttempt

\* axolotl.createSessionFromPreKeyBundle settles
OnCreateSession ==
    /\ \E promise \in enc.promises, err \in BOOLEAN :
          /\ promise.stage = "createSession"
          /\ Becomes(onCreateSession(St, promise, err))
          /\ last' = Op(IF err THEN "onCreateSessionError" ELSE "onCreateSession",
                        [NoNode EXCEPT !.from = promise.jid])
    /\ subs' = subs
    /\ failedAttempt' = failedAttempt

\* pre-key fetch for contacts without session
NextEnc ==
    \/ Connect
    \/ OnTransportConnect
    \/ OnTransportEnd
    \/ OnTransportData({Node("success", 0, "", "", "", "", 1)})
    \/ SendSecure
    \/ OnLoadSession
    \/ GetKeysResponse
    \/ OnCreateSession
    \/ OnEncrypted

SpecEnc == Init /\ [][NextEnc]_vars

\* the caller sends a message to a contact with cached session
SendEncryptedCached ==
    /\ Len(subs) < MaxSubmit
    /\ \E jid \in enc.sessions : Becomes(sendEncryptedMessage(St, jid, Len(subs) + 1))
    /\ subs' = Submit("encrypted")
    /\ failedAttempt' = failedAttempt
    /\ last' = Op("sendEncryptedMessage", NoNode)

\* encrypted sends and receives on the sessions of the contacts
NextSess ==
    \/ Connect
    \/ OnTransportConnect
    \/ OnTransportData({Node("success", 0, "", "", "", "", 1)})
    \/ SendSecure
    \/ OnLoadSession
    \/ SendEncryptedCached
    \/ OnEncrypted
    \/ EncryptedMessageOf({n \in EncryptedNodes : n.id = 1 /\ n.from = Peer /\ n.text # "other"})
    \/ OnSessionLoaded
    \/ OnDecrypted

SpecSess == Init /\ [][NextSess]_vars

\* media sends whose upload completes in the processNode submodule
NextMedia ==
    \/ Connect
    \/ SendMedia
    \/ OnTransportConnect
    \/ OnTransportEnd
    \/ OnTransportData(MediaNodes)
    \/ OnMediaFile
    \/ OnMediaReadyCallback

SpecMedia == Init /\ [][NextMedia]_vars

\* pre-key replenishment
NextKeys ==
    \/ Connect
    \/ OnTransportConnect
    \/ OnTransportEnd
    \/ EncryptNotification
    \/ OnSendKeys
    \/ OnStore

SpecKeys == Init /\ [][NextKeys]_vars

\* inbound messages and the message processors
NextProc ==
    \/ Connect
    \/ Disconnect
    \/ OnTransportConnect
    \/ OnTransportEnd
    \/ OnTransportData(MessageNodes)

SpecProc == Init /\ [][NextProc]_vars

\* inbound notifications
NextNotify ==
    \/ Connect
    \/ Disconnect
    \/ Login
    \/ OnTransportConnect
    \/ OnTransportEnd
    \/ OnTransportData(NotificationNodes)

SpecNotify == Init /\ [][NextNotify]_vars

(* ---------------------------------------------------------------------- *)
(* A KeyStream pair: the peer's writer and this end's reader               *)
(* ---------------------------------------------------------------------- *)
MaxFrames == 2
MaxPayload == 2

Payloads == UNION {[1..n -> Bits] : n \in 1..MaxPayload}

SessionIdle ==
    UNCHANGED <<reconnect, connected, loggedIn, messageId, queue, mediaQueue,
                callbacksCollection, connectCallback, loginCallback, readerKey, writerKey, readerSet,
                writerSet, challengeFile, socket, jobs, enc, out, sent, invoked, subs,
                failedAttempt, last, input, writerKeyNew>>

InitKS ==
    /\ reconnect = FALSE
    /\ connected = FALSE
    /\ loggedIn = FALSE
    /\ messageId = 0
    /\ queue = <<>>
    /\ mediaQueue = {}
    /\ callbacksCollection = <<>>
    /\ connectCallback = FALSE
    /\ loginCallback = FALSE
    /\ readerKey = NoKeyStream
    /\ writerKey = NoKeyStream
    /\ readerSet = NoKeyStream
    /\ writerSet = NoKeyStream
    /\ challengeFile = 0
    /\ socket = "closed"
    /\ jobs = {}
    /\ enc = EncInit
    /\ out = <<>>
    /\ sent = <<>>
    /\ invoked = <<>>
    /\ subs = <<>>
    /\ failedAttempt = FALSE
    /\ last = Op("init", NoNode)
    /\ \E key \in Bits, macKey \in Bits :
          /\ ksWriter = KeyStream(key, macKey)
          /\ ksReader = KeyStream(key, macKey)
    /\ wire = <<>>
    /\ input = <<>>
    /\ writerKeyNew = FALSE
    /\ ksLast = [op |-> "init", macOk |-> TRUE, thrown |-> FALSE, data |-> <<>>, plain |-> <<>>, n |-> 0]

\* where the MAC and the ciphered range are in a buffer carrying n payload bytes
MacOffsetOf(macFirst, n) == IF macFirst THEN 0 ELSE n
OffsetOf(macFirst) == IF macFirst THEN MacLen ELSE 0

\* the peer encodes a payload once the previous frame was consumed; the MAC
\* is placed before or after the ciphertext
Encode ==
    /\ ksWriter.seq < MaxFrames
    /\ wire = <<>>
    /\ \E payload \in Payloads, macFirst \in BOOLEAN :
          LET n == Len(payload)
              pad == [i \in 1..MacLen |-> 0]
              buffer == IF macFirst THEN pad \o payload ELSE payload \o pad
              r == encodeMessage(ksWriter, buffer, MacOffsetOf(macFirst, n), OffsetOf(macFirst), n)
          IN  /\ ksWriter' = r.ks
              /\ wire' = Append(wire, [data |-> r.data, plain |-> payload, macFirst |-> macFirst])
              /\ ksLast' = [op |-> "encode", macOk |-> TRUE, thrown |-> FALSE,
                            data |-> r.data, plain |-> payload, n |-> ksLast.n + 1]
    /\ ksReader' = ksReader
    /\ SessionIdle

\* one MAC byte of the frame at the head of the wire is changed in transit
Tamper ==
    /\ wire # <<>>
    /\ \E i \in 1..MacLen :
          LET frame == Head(wire)
              at == MacOffsetOf(frame.macFirst, Len(frame.plain)) + i
          IN  wire' = <<[frame EXCEPT !.data[at] = 1 - @]>> \o Tail(wire)
    /\ ksLast' = [ksLast EXCEPT !.op = "tamper"]
    /\ UNCHANGED <<ksWriter, ksReader>>
    /\ SessionIdle

\* this end decodes the frame at the head of the wire
Decode ==
    /\ wire # <<>>
    /\ LET frame == Head(wire)
           n == Len(frame.plain)
           macOffset == MacOffsetOf(frame.macFirst, n)
           offset == OffsetOf(frame.macFirst)
           r == decodeMessage(ksReader, frame.data, macOffset, offset, n)
       IN  /\ ksReader' = r.ks
           /\ ksLast' = [op |-> "decode",
                         macOk |-> slice(frame.data, macOffset, macOffset + MacLen)
                                     = Digest(ksReader.macKey,
                                              slice(frame.data, offset, offset + n), ksReader.seq),
                         thrown |-> r.thrown,
                         data |-> IF r.thrown THEN <<>> ELSE slice(r.data, offset, offset + n),
                         plain |-> frame.plain,
                         n |-> ksLast.n]
    /\ wire' = Tail(wire)
    /\ ksWriter' = ksWriter
    /\ SessionIdle

NextKS ==
    \/ Encode
    \/ Tamper
    \/ Decode

SpecKS == InitKS /\ [][NextKS]_vars

\* the KeyStream pair, and the session creating and installing its own
\* reader and writer KeyStreams on a challenge
NextInst ==
    \/ Encode
    \/ Tamper
    \/ Decode
    \/ Connect
    \/ OnTransportConnect
    \/ OnTransportData({Node("challenge", 0, "", "", "", "", n) : n \in AuthNonces})

SpecInst == InitKS /\ [][NextInst]_vars

(* ---------------------------------------------------------------------- *)
(* Properties                                                              *)
(* ---------------------------------------------------------------------- *)
IsFrame(e, tag) == e.k = "send" /\ e.name = tag
IsEmit(e) == e.k = "emit"

\* payload tokens of the message nodes among the effects o, in order
MessageTokens(o) ==
    LET m == SelectSeq(o, LAMBDA e : IsFrame(e, "message"))
    IN  [i \in 1..Len(m) |-> m[i].node.data]

QueueTokens(q) == [i \in 1..Len(q) |-> q[i].node.data]

NoDuplicates(q) == \A i, j \in 1..Len(q) : i # j => q[i] # q[j]

Processed(l, kind(_)) == l.op = "processNode" /\ kind(l.node)

\* C1: a sendMessage* call made while the session is not logged in writes
\* nothing to the transport and appends to the queue; processing a success
\* node writes every queued message once, in submission order, and leaves the
\* queue empty.
C1_QueueFlushedInOrder ==
    [][ /\ (last'.op = "sendMessage" /\ ~loggedIn) =>
              /\ out' = <<>>
              /\ sent' = sent
              /\ QueueTokens(queue') = Append(QueueTokens(queue), Len(subs'))
        /\ Processed(last', isSuccess) =>
              /\ MessageTokens(out') = QueueTokens(queue)
              /\ sent' = sent \o QueueTokens(queue)
              /\ \A i, j \in 1..Len(queue) : i < j => queue[i].node.data < queue[j].node.data
              /\ queue' = <<>>
              /\ NoDuplicates(sent')
      ]_vars

C1_Witness ==
    /\ Processed(last, isSuccess)
    /\ MessageTokens(out) = <<1, 2>>
    /\ ~subs[1].li /\ ~subs[2].li
    /\ queue = <<>>

\* C2 as claimed: every inbound message node, whatever its sender, has a
\* receipt (type read, same id) written before any event is emitted for it.
ReceiptBeforeEmits(node, o) ==
    (\E j \in 1..Len(o) : IsEmit(o[j])) =>
        \E i \in 1..Len(o) :
            /\ IsFrame(o[i], "receipt")
            /\ o[i].node.id = node.id
            /\ o[i].node.type = "read"
            /\ \A j \in 1..Len(o) : IsEmit(o[j]) => i < j

C2_Original ==
    Processed(last, isMessage) => ReceiptBeforeEmits(last.node, out)

\* C2 amended: the receipt precedes the emissions for every inbound message
\* node whose sender is not the session's own JID; a message node from the
\* session's own JID gets no receipt.
C2_ReceiptBeforeEmission ==
    Processed(last, isMessage) =>
        IF last.node.from # Self
        THEN /\ ReceiptBeforeEmits(last.node, out)
             /\ Len(SelectSeq(out, LAMBDA e : IsFrame(e, "receipt"))) = 1
             /\ IsFrame(out[1], "receipt")
             /\ out[1].node.id = last.node.id /\ out[1].node.type = "read"
        ELSE \A i \in 1..Len(out) : ~IsFrame(out[i], "receipt")

C2_Witness ==
    /\ Processed(last, isMessage)
    /\ last.node.from = Peer
    /\ Len(out) = 3
    /\ IsFrame(out[1], "receipt") /\ out[1].node.id = last.node.id
    /\ IsEmit(out[2]) /\ out[2].name = "typing"
    /\ IsEmit(out[3]) /\ out[3].name = "message"

\* C3: decodeMessage on a frame whose MAC bytes differ from the HMAC of the
\* ciphertext and the current sequence number is rejected: an error is
\* raised, no plaintext is returned, and the reader's sequence counter and
\* RC4 position are as before the call.
C3_MacMismatchRejected ==
    [][ (ksLast'.op = "decode" /\ ~ksLast'.macOk) =>
          /\ ksLast'.thrown
          /\ ksLast'.data = <<>>
          /\ ksReader' = ksReader
      ]_vars

\* callbacks tracked at the moment, as a set of tokens
Pending(cc) == {cc[i].callback : i \in 1..Len(cc)}

CallsOf(o) == SelectSeq(o, LAMBDA e : e.k = "cb" /\ e.name = "callback")

\* C4: a callback registered under request id X stays tracked until an inbound
\* node with id X reaches executeCallback; it is then invoked once and
\* removed, never invoked again, and the callbacks registered under other ids
\* are neither invoked nor removed.
C4_CallbackOnce ==
    [][ /\ \A c \in DOMAIN invoked' :
              /\ invoked'[c].n <= 1
              /\ (c \in Pending(callbacksCollection')) = (invoked'[c].n = 0)
        /\ \A c \in DOMAIN invoked :
              (invoked'[c] # invoked[c] \/ (c \in Pending(callbacksCollection)
                                            /\ c \notin Pending(callbacksCollection'))) =>
                  /\ last'.op = "processNode"
                  /\ last'.node.id = invoked[c].id
                  /\ invoked[c].n = 0 /\ invoked'[c].n = 1
                  /\ \E i \in 1..Len(out') : out'[i].k = "cb" /\ out'[i].cb = c
      ]_vars

C4_Witness ==
    /\ Processed(last, isLastSeen)
    /\ out = <<>>
    /\ \E c, d \in DOMAIN invoked :
          /\ invoked[c].id = last.node.id /\ invoked[c].n = 1
          /\ invoked[d].id # last.node.id /\ invoked[d].n = 0
          /\ d \in Pending(callbacksCollection)

C6_ErrorResolvesCallback ==
    [][ Processed(last', isError) =>
          /\ Len(out') = Len(SelectSeq(callbacksCollection, LAMBDA e : e.id = last'.node.id))
          /\ \A i \in 1..Len(out') :
                /\ out'[i].k = "cb"
                /\ out'[i].cb \in Pending(callbacksCollection)
                /\ invoked[out'[i].cb].id = last'.node.id
                /\ Len(out'[i].args) = 1
                /\ out'[i].args[1].code = last'.node.code
                /\ out'[i].args[1].text = last'.node.text
          /\ callbacksCollection' = SelectSeq(callbacksCollection, LAMBDA e : e.id # last'.node.id)
          /\ UNCHANGED <<loggedIn, connected, readerKey, writerKey, readerSet, writerSet,
                         queue, sent, socket, messageId, mediaQueue, jobs>>
      ]_vars

C6_Witness ==
    /\ Processed(last, isError)
    /\ Len(out) = 1
    /\ out[1].k = "cb" /\ out[1].args[1].code = 401 /\ out[1].args[1].text = "denied"
    /\ loggedIn
    /\ Len(queue) + Len(callbacksCollection) >= 1

\* C7: processing a success node installs the writer keystream, sets
\* loggedIn, writes every queued message through that keystream, and only
\* then emits login, once.
C7_SuccessOrder ==
    [][ Processed(last', isSuccess) =>
          LET n == Len(queue) IN
          /\ writerSet' = writerKey /\ loggedIn'
          /\ Len(out') >= n + 1
          /\ \A i \in 1..n :
                /\ IsFrame(out'[i], "message")
                /\ out'[i].node.data = queue[i].node.data
                /\ out'[i].key = writerKey
                /\ out'[i].li
          /\ IsEmit(out'[n + 1]) /\ out'[n + 1].name = "login"
          /\ Len(SelectSeq(out', LAMBDA e : IsEmit(e) /\ e.name = "login")) = 1
          /\ \A i \in (n + 2)..Len(out') : out'[i].k = "cb" /\ out'[i].name = "loginCallback"
      ]_vars

C7_Witness ==
    /\ Processed(last, isSuccess)
    /\ Len(out) = 3
    /\ IsFrame(out[1], "message") /\ out[1].key # NoKeyStream /\ out[1].key = writerSet
    /\ IsFrame(out[2], "message")
    /\ IsEmit(out[3]) /\ out[3].name = "login"

\* C8 as claimed: once a failure node was processed, no inbound node makes the
\* session logged in or flushes the send queue before a new connect() or
\* login().
C8_Original ==
    [][ (failedAttempt /\ last'.op = "processNode") =>
          (~loggedIn' /\ MessageTokens(out') = <<>>) ]_vars

\* C8 amended: processing a failure node sets loggedIn to false and surfaces
\* the error (error event, then the login callback if one is stored); nothing
\* is written and the queue is kept. No terminal state is recorded: a success
\* node that arrives later on the same connection still logs the session in.
C8_FailureSurfaced ==
    [][ Processed(last', isFailure) =>
          /\ ~loggedIn'
          /\ Len(out') = (IF loginCallback THEN 2 ELSE 1)
          /\ IsEmit(out'[1]) /\ out'[1].name = "error" /\ out'[1].node = last'.node
          /\ loginCallback =>
                (out'[2].k = "cb" /\ out'[2].name = "loginCallback" /\ out'[2].args = <<last'.node>>)
          /\ UNCHANGED <<queue, sent, socket, connected, writerSet, readerSet>>
      ]_vars

C8_Witness ==
    /\ Processed(last, isFailure)
    /\ Len(out) = 2
    /\ out[2].k = "cb"
    /\ ~loggedIn
    /\ Len(queue) >= 1

\* C9: when the transport ends, connected becomes false; with reconnect
\* configured, reconnect is emitted and connect() is issued once, which resets
\* loggedIn; without it, end is emitted and no connect() is issued.
C9_TransportEnd ==
    [][ last'.op = "onTransportEnd" =>
          /\ ~connected'
          /\ IF reconnect
             THEN /\ Len(out') = 2
                  /\ IsEmit(out'[1]) /\ out'[1].name = "reconnect"
                  /\ out'[2].k = "connect"
                  /\ ~loggedIn'
                  /\ socket' = "connecting"
             ELSE /\ Len(out') = 1
                  /\ IsEmit(out'[1]) /\ out'[1].name = "end"
                  /\ loggedIn' = loggedIn
                  /\ socket' = "closed"
      ]_vars

C9_Witness ==
    /\ last.op = "onTransportEnd"
    /\ reconnect
    /\ Len(out) = 2 /\ out[2].k = "connect"
    /\ ~loggedIn /\ ~connected
    /\ Len(sent) >= 1

\* C10 as claimed: message nodes of sends made on a logged-in session are
\* written in the order of the calls, whatever their kind.
C10_Original ==
    \A i, j \in 1..Len(sent) :
        (i < j /\ subs[sent[i]].li /\ subs[sent[j]].li) => sent[i] < sent[j]

\* C10 amended: a text or location send made on a logged-in session is written
\* within the call, so two such sends are written in the order of the calls;
\* a media or encrypted send is written when its asynchronous step completes
\* and a later send can be written before it.
C10_SyncSendsInOrder ==
    [][ /\ (last'.op = "sendMessage" /\ loggedIn) =>
              (sent' = Append(sent, Len(subs')) /\ MessageTokens(out') = <<Len(subs')>>)
        /\ last'.op \in {"sendMedia", "sendEncryptedMessage"} => sent' = sent
        /\ \A i, j \in 1..Len(sent') :
              (i < j /\ subs'[sent'[i]].li /\ subs'[sent'[j]].li
                 /\ subs'[sent'[i]].kind \in {"text", "location"}
                 /\ subs'[sent'[j]].kind \in {"text", "location"}) => sent'[i] < sent'[j]
      ]_vars

C10_Witness ==
    /\ Len(sent) = 2
    /\ sent[1] = 2 /\ sent[2] = 1
    /\ subs[1].li /\ subs[2].li
    /\ subs[1].kind \in {"media", "encrypted"}
    /\ subs[2].kind = "text"

\* C11: for every inbound notification node, one ack mirroring its id, type
\* and participant is written to the transport, and it is written before any
\* event is emitted for the notification.
C11_NotificationAckFirst ==
    Processed(last, isNotification) =>
        /\ Len(out) >= 1
        /\ IsFrame(out[1], "ack")
        /\ out[1].node.id = last.node.id
        /\ out[1].node.type = last.node.type
        /\ out[1].node.participant = last.node.participant
        /\ out[1].node.to = last.node.from
        /\ \A i \in 2..Len(out) : IsEmit(out[i])
        /\ Len(out) <= 2

C11_Witness ==
    /\ Processed(last, isNotification)
    /\ last.node.participant = Peer
    /\ Len(out) = 2
    /\ IsEmit(out[2]) /\ out[2].name = "notificationGroupSubjectChanged"

\* C12: with two KeyStreams built from the same cipher key and MAC key,
\* decoding the frames one of them encoded, in order and with the same
\* macOffset, offset and length, returns each original payload, and after k
\* frames both have sequence counter k.
C12_RoundTrip ==
    /\ (ksLast.op = "decode" /\ ksLast.macOk) =>
            (~ksLast.thrown /\ ksLast.data = ksLast.plain)
    /\ ksWriter.seq = ksLast.n
    /\ ksReader.seq = ksLast.n - Len(wire)
    /\ wire = <<>> => ksReader.pos = ksWriter.pos

C12_Witness ==
    /\ ksLast.op = "decode" /\ ksLast.macOk
    /\ ksLast.n = 2
    /\ ksReader.seq = 2 /\ ksWriter.seq = 2
    /\ Len(ksLast.plain) = 2
    /\ ksLast.plain[1] # ksLast.plain[2]
    /\ ksLast.data = ksLast.plain

\* events emitted by the message processors among the effects o, in order
ProcessorEvents(o) ==
    LET e == SelectSeq(o, LAMBDA x : IsEmit(x) /\ x.name # "typing")
    IN  [i \in 1..Len(e) |-> e[i].name]

\* C13 as claimed: at most one processor emits for an inbound message node.
C13_Original ==
    Processed(last, isMessage) => Len(ProcessorEvents(out)) <= 1

\* C13 amended: every processor that matches the node is run, in the order
\* text, location, image, video, audio, vcard, not only the first one; a node
\* with a body child and a media child can produce a message event and a
\* media event. At most one of the five media processors emits, a node with
\* a single child gets at most one event and a node matching no processor
\* gets none.
C13_EveryMatchRuns ==
    Processed(last, isMessage) =>
        LET n == last.node
            ev == ProcessorEvents(out)
            hits == SelectSeq(Processors, LAMBDA p : match(p, n) /\ ~Throws(p, n))
        IN  /\ Len(ev) = Len(hits)
            /\ \A i \in 1..Len(ev) : ev[i] = EventOf(hits[i])
            /\ Len(SelectSeq(ev, LAMBDA x : x # "message")) <= 1
            /\ n.others = {} => Len(ev) <= 1
            /\ Len(ev) <= 2

C13_Witness ==
    /\ Processed(last, isMessage)
    /\ ProcessorEvents(out) = <<"message", "receivedImage">>

\* ids given by nextMessageId to the message nodes among the effects o
AllocatedIds(o) ==
    LET m == SelectSeq(o, LAMBDA e : IsFrame(e, "message"))
    IN  [i \in 1..Len(m) |-> m[i].node.id]

\* C14: the message counter starts at 0 and every call of nextMessageId,
\* whatever reconnects and logins happened in between, takes the next value:
\* the counter is never reset or decremented and no id is given twice.
C14_MessageIdsDistinct ==
    /\ messageId = 0
    /\ [][ LET ids == AllocatedIds(out')
           IN  /\ Len(ids) = messageId' - messageId
               /\ \A i \in 1..Len(ids) : ids[i] = messageId + i
       ]_vars

C14_Witness ==
    /\ Processed(last, isSuccess)
    /\ messageId = 2
    /\ AllocatedIds(out) = <<2>>
    /\ sent = <<1, 2>>
    /\ subs[1].li /\ ~subs[2].li

CallbackCalls(o) == SelectSeq(o, LAMBDA e : e.k = "cb" /\ e.name = "callback")

\* C15: when an iq result with seconds = S answers a requestLastSeen, the
\* callback is invoked once with a result whose from is the responder's JID
\* and whose secondsAgo equals S.
C15_LastSeenSeconds ==
    (Processed(last, isLastSeen) /\ CallbackCalls(out) # <<>>) =>
        /\ Len(CallbackCalls(out)) = 1
        /\ \E i \in 1..Len(out[1].args) :
              /\ out[1].args[i].from = last.node.from
              /\ out[1].args[i].secondsAgo.den # 0
              /\ out[1].args[i].secondsAgo.num = last.node.data * out[1].args[i].secondsAgo.den

\* C16: every tracked callback is invoked with (err, response): err is null
\* on success and the {code, message} object on an iq error.
C16_ErrFirst ==
    \A i \in 1..Len(out) :
        (out[i].k = "cb" /\ out[i].name = "callback"
           /\ (Processed(last, isError) \/ Processed(last, isLastSeen))) =>
            IF Processed(last, isError)
            THEN Len(out[i].args) >= 1 /\ out[i].args[1].tag = "error"
            ELSE Len(out[i].args) = 2 /\ out[i].args[1].tag = "null"

\* C20: on an encrypt notification whose count child reports c remaining
\* pre-keys, 0 <= c <= N, exactly N - c pre-keys are published (none when
\* c = N) with the stored identity key pair and registration id.
C20_ReplenishCount ==
    last.op = "onSendKeys" =>
        /\ \A i \in 1..Len(out) : IsFrame(out[i], "iq") => out[i].node.text = "stored"
        /\ IF last.node.data = COUNT_PREKEYS
           THEN \A i \in 1..Len(out) : IsFrame(out[i], "iq") => out[i].node.data = 0
           ELSE /\ Len(out) = 1
                /\ IsFrame(out[1], "iq")
                /\ out[1].node.data = COUNT_PREKEYS - last.node.data

\* where the media send tok stands: number of media queue entries, upload
\* jobs, queued messages and written messages that carry it
Copies(tok) ==
    Cardinality({e \in mediaQueue : e.tok = tok})
      + Cardinality({j \in jobs : j.stage = "upload" /\ j.tok = tok})
      + Len(SelectSeq(queue, LAMBDA e : e.node.data = tok))
      + Len(SelectSeq(sent, LAMBDA x : x = tok))

MessagesTo(o) ==
    LET m == SelectSeq(o, LAMBDA e : IsFrame(e, "message"))
    IN  [i \in 1..Len(m) |-> <<m[i].node.data, m[i].node.to>>]

C19_MediaErrorSurfaced ==
    last.op = "mediaReadyError" =>
        /\ \E i \in 1..Len(out) : IsEmit(out[i]) /\ out[i].name = "media.error"
        /\ \A i \in 1..Len(out) : out[i].k # "throw"
        /\ MessageTokens(out) = <<>>

\* C17: after the pre-key response for request id X is processed, X is no
\* longer pending, every requested JID absent from the response is marked
\* skip-encryption with its pending plaintexts sent, and every requested JID
\* present in the response gets a cached session and has its pending list
\* drained once the session creation has settled.
C17_PendingDrained ==
    /\ (last.op = "processGetKeysResponse" /\ \A i \in 1..Len(out) : out[i].k # "throw") =>
          /\ \A r \in enc.pendingGetKeyRequests : r.id # last.node.id
          /\ \A jid \in enc.requested \ last.node.others :
                jid \in enc.skipEncJids /\ enc.pendingMessages[jid] = <<>>
    /\ last.op \in {"onCreateSession", "onCreateSessionError"} =>
          /\ last.node.from \in enc.sessions
          /\ enc.pendingMessages[last.node.from] = <<>>

\* C21: the identity key pair and registration id, the generated pre-keys
\* and the signed pre-key of a publication are persisted before its iq set is
\* written, and the publish promise resolves only after all stores completed.
C21_PersistBeforePublish ==
    \A id \in enc.published \cup enc.resolved :
        \A st \in StoreStages : [stage |-> st, id |-> id] \in enc.stored

\* C22: when the decryption of an inbound message with an enc child fails
\* (bad ciphertext, no session for type msg, pre-key mismatch for type pkmsg)
\* or its session cannot be loaded, no receivedMessage event is emitted, no
\* session is stored, and nothing of the session changes but the settled
\* promise: loggedIn, the queue and the tracked callbacks stay as they were.
C22_DecryptFailureDropped ==
    [][last'.op \in {"onDecryptedError", "onSessionLoadedError"} =>
          /\ out' = <<>>
          /\ enc'.keystore = enc.keystore
          /\ enc'.promises \subseteq enc.promises
          /\ UNCHANGED <<loggedIn, connected, queue, callbacksCollection, messageId,
                         readerSet, writerSet, socket, sent>>]_vars

C22_Witness ==
    /\ last.op = "onDecryptedError"
    /\ last.node.text = "msg"
    /\ loggedIn
    /\ last.node.from \notin enc.keystore

\* C23: session state is torn down when the connection goes away: loggedIn
\* implies connected in every reachable state, and a message submitted while
\* not connected is queued, never written.
C23_LoggedInImpliesConnected ==
    /\ loggedIn => connected
    /\ (last.op = "sendMessage" /\ ~connected) => MessageTokens(out) = <<>>

\* C24: with reconnect configured every transport error reported to the
\* session is followed by a connect() attempt; the error is surfaced as error
\* when the session was connected and as connectError when it was not.
C24_ErrorTriggersReconnect ==
    /\ [](last.op = "onTransportError" =>
            \E i \in 1..Len(out) :
                /\ IsEmit(out[i])
                /\ out[i].name = (IF connected THEN "error" ELSE "connectError"))
    /\ ((last.op = "onTransportError" /\ reconnect) ~>
            (\E i \in 1..Len(out) : out[i].k = "connect"))

\* C25: every inbound ping is answered with exactly one iq of type result
\* carrying the ping's id; no event is emitted for it, and loggedIn, the send
\* queue and the tracked callbacks are left as they were.
C25_PingAnswered ==
    [][Processed(last', isPing) =>
          /\ Len(out') = 1
          /\ IsFrame(out'[1], "iq")
          /\ out'[1].node.type = "result"
          /\ out'[1].node.id = last'.node.id
          /\ UNCHANGED <<loggedIn, queue, callbacksCollection, invoked, sent>>]_vars

C25_Witness ==
    /\ Processed(last, isPing)
    /\ loggedIn
    /\ Len(callbacksCollection) >= 1
    /\ callbacksCollection[1].id = last.node.id
    /\ Len(out) = 1

\* C26: a message sent with an explicit msgid is written to the transport
\* with id = msgid, whether it is written within the call or queued before
\* login and flushed later.
C26_ExplicitMsgId ==
    [][\A i \in 1..Len(out') :
          (IsFrame(out'[i], "message") /\ subs'[out'[i].node.data].kind = "textWithId") =>
              out'[i].node.id = MsgIdOf(out'[i].node.data)]_vars

C29_SequencePerInstance ==
    /\ ksWriter.seq = 0 /\ ksReader.seq = 0
    /\ []((readerSet # NoKeyStream \/ writerSet # NoKeyStream) =>
             (readerSet # writerSet /\ readerKey # writerKey))
    /\ [][/\ ksWriter'.seq = ksWriter.seq + (IF Len(wire') > Len(wire) THEN 1 ELSE 0)
          /\ ksReader'.seq = ksReader.seq + (IF Len(wire') < Len(wire) THEN 1 ELSE 0)]_vars

C29_Witness ==
    /\ ksWriter.seq = 2
    /\ ksReader.seq = 1
    /\ Len(wire) = 1
    /\ readerSet # NoKeyStream
    /\ writerSet # NoKeyStream

\* what login() writes: the stream header, the features node and the auth
\* node, in this order and none of them through a writer keystream, with the
\* writer keystream cleared and the reader keystream cleared or, with a cached
\* challenge, replaced by the one of that challenge
LoginWrites ==
    /\ Len(out') = 3
    /\ IsFrame(out'[1], "stream:stream")
    /\ IsFrame(out'[2], "stream:features")
    /\ IsFrame(out'[3], "auth")
    /\ \A i \in 1..3 : out'[i].key = NoKeyStream
    /\ writerSet' = NoKeyStream
    /\ readerSet' = (IF challengeFile = 0 THEN NoKeyStream ELSE readerKey')

\* C30 as claimed: every call of login() clears both keystreams and writes
\* the stream header, the features node and the auth node, in this order and
\* none of them through a writer keystream of an earlier connection.
C30_Original == [][last'.op = "login" => LoginWrites]_vars

\* C30 amended: login() on a session that is not logged in clears both
\* keystreams and writes the stream header, the features node and the auth
\* node, in this order and none of them through a writer keystream of an
\* earlier connection; on a logged-in session it returns at once, clearing
\* and writing nothing.
C30_LoginClearsKeys ==
    [][last'.op = "login" =>
          IF loggedIn
          THEN out' = <<>> /\ UNCHANGED <<readerSet, writerSet, readerKey, writerKey, loggedIn>>
          ELSE LoginWrites]_vars

C30_Witness ==
    /\ last.op = "login"
    /\ Len(out) = 3
    /\ challengeFile = 0
    /\ writerKey # NoKeyStream
    /\ writerSet = NoKeyStream

(* ---------------------------------------------------------------------- *)
(* Transport data: properties                                              *)
(* ---------------------------------------------------------------------- *)
\* the complete frames of a stream that hold a node, in order
Yielded(stream) == SelectSeq(stream, LAMBDA u : u.part = 2)

\* the frames among effects
Replies(effects) == SelectSeq(effects, LAMBDA e : e.k = "send")

\* the position of the last frame written before position p of effects
ReplyBefore(effects, p) ==
    CHOOSE q \in 0..p : /\ q > 0 => effects[q].k = "send"
                        /\ \A r \in (q + 1)..p : effects[r].k # "send"

\* C31: for each chunk of transport data, onTransportData appends it to the
\* reader and processes every complete node the reader yields, in the order
\* yielded and each exactly once, finishing one node with its replies and
\* emissions before the next, and stops at the first "no node yet": the
\* replies are those of the yielded nodes in order, every emission follows
\* the reply of its own node, and what stays in the reader is the incomplete
\* end of the stream.
C31_ChunkProcessedInOrder ==
    [][last'.op = "onTransportData" =>
          LET stream == input \o last'.data
              nodes == Yielded(stream)
              replies == Replies(out')
          IN  /\ Len(replies) = Len(nodes)
              /\ \A i \in 1..Len(nodes) : replies[i].node.id = nodes[i].node.id
              /\ \A p \in 1..Len(out') :
                    LET q == ReplyBefore(out', p)
                    IN  q > 0 /\ out'[p].node.id = out'[q].node.id
              /\ Len(input') <= 1
              /\ Len(input') = 1 => input'[1].part = 1
              /\ input' = SubSeq(stream, Len(stream) - Len(input') + 1, Len(stream))]_vars

C31_Witness ==
    /\ last.op = "onTransportData"
    /\ Len(Replies(out)) >= 2
    /\ \E p \in 1..Len(out) : out[p].k = "emit"
    /\ \E p \in 1..Len(last.data) : last.data[p] = NullFrame

(* ---------------------------------------------------------------------- *)
(* Encryption sessions: properties                                         *)
(* ---------------------------------------------------------------------- *)
\* the ciphertexts made for jid so far
CiphertextsFor(jid) == { i \in 1..Len(enc.encrypted) : enc.encrypted[i].jid = jid }

\* no operation of the encryption extension is in flight
Settled == enc.promises = {} /\ \A job \in jobs : job.stage # "encrypt"

\* C32: for any interleaving of sendEncryptedMessage calls to the same JID,
\* each encryption starts from the session produced by the previous one: no
\* two plaintexts are encrypted from the same session state, and the session
\* cached and stored after the last call reflects all earlier encryptions.
C32_EncryptionsChained ==
    /\ \A i, j \in 1..Len(enc.encrypted) :
          (i < j /\ enc.encrypted[i].jid = enc.encrypted[j].jid)
              => enc.encrypted[i].session # enc.encrypted[j].session
    /\ \A jid \in Jids :
          Settled =>
             /\ Len(SelectSeq(enc.cached[jid], LAMBDA o : o = "encrypt"))
                    >= Cardinality(CiphertextsFor(jid))
             /\ Len(SelectSeq(enc.record[jid], LAMBDA o : o = "encrypt"))
                    >= Cardinality(CiphertextsFor(jid))

\* C33: the session cache and the KeyStore stay coherent: after any sequence
\* of encrypted sends to and encrypted receives from a JID, once every
\* asynchronous step has completed, the cached session of that JID (if any)
\* equals the session most recently stored in the KeyStore for it.
C33_CacheMatchesKeyStore ==
    \A jid \in Jids :
        (Settled /\ jid \in enc.sessions /\ jid \in enc.keystore)
            => enc.cached[jid] = enc.record[jid]

(* ---------------------------------------------------------------------- *)
(* Send queue across connections                                           *)
(* ---------------------------------------------------------------------- *)
\* C34: messages queued before login survive connection loss: across any
\* sequence of transport end, reconnect, connect() and login() the send
\* queue is never cleared or reordered, and each queued message is written
\* exactly once, at the first success node processed after it was queued.
\* A step that is not the processing of a success node keeps the queue as a
\* prefix and writes none of its messages; the processing of a success node
\* writes the whole queue in order and empties it; no message is written
\* twice.
C34_QueueSurvivesConnectionLoss ==
    [][/\ IF last'.op = "processNode" /\ isSuccess(last'.node)
          THEN queue' = <<>> /\ MessageTokens(out') = QueueTokens(queue)
          ELSE /\ Len(queue') >= Len(queue)
               /\ SubSeq(queue', 1, Len(queue)) = queue
               /\ \A i \in 1..Len(queue), p \in 1..Len(out') :
                     IsFrame(out'[p], "message") => out'[p].node.data # queue[i].node.data
       /\ last'.op \in {"connect", "login", "disconnect", "onTransportConnect", "onTransportEnd"}
             => queue' = queue
       /\ NoDuplicates(sent')
       /\ \A i \in 1..Len(queue'), j \in 1..Len(sent') : queue'[i].node.data # sent'[j]]_vars

C34_Witness ==
    /\ last.op = "onTransportEnd"
    /\ reconnect
    /\ socket = "connecting"
    /\ QueueTokens(queue) = <<1, 2>>

(* ---------------------------------------------------------------------- *)
(* Frames before login                                                     *)
(* ---------------------------------------------------------------------- *)
HandshakeFrames == {"stream:stream", "stream:features", "auth", "response"}

\* the positions in effects of the frames written while not logged in
WrittenBeforeLogin(effects) ==
    { p \in 1..Len(effects) : effects[p].k = "send" /\ ~effects[p].li }

\* C35 as claimed: while the session is not logged in, the only frames
\* written to the transport are the handshake frames (stream header,
\* features, auth, response); a presence, chat state or iq request made by
\* the caller before login is not written until login has succeeded.
C35_Original ==
    [][socket' = "open" =>
          \A p \in WrittenBeforeLogin(out') : out'[p].name \in HandshakeFrames]_vars

\* C35 amended: while the session is not logged in no message frame is
\* written: message sends are queued until the success node. The other
\* requests of the caller are not held back: sendIsOnline and sendIsOffline
\* write their presence frame within the call, and requestLastSeen its iq
\* frame, whether or not the session is logged in.
C35_OnlyMessagesWait ==
    [][/\ \A p \in WrittenBeforeLogin(out') :
             out'[p].name \in HandshakeFrames \cup {"presence", "iq"}
       /\ last'.op \in {"sendIsOnline", "sendIsOffline"}
             => Len(out') = 1 /\ IsFrame(out'[1], "presence") /\ out'[1].li = loggedIn
       /\ last'.op = "requestLastSeen"
             => Len(out') = 1 /\ IsFrame(out'[1], "iq") /\ out'[1].li = loggedIn
       /\ (last'.op = "sendMessage" /\ ~loggedIn) => out' = <<>>]_vars

C35_Witness ==
    /\ last.op = "sendIsOnline"
    /\ socket = "open"
    /\ connected
    /\ ~loggedIn
    /\ Len(out) = 1
    /\ IsFrame(out[1], "presence")
    /\ Len(queue) > 0

(* ---------------------------------------------------------------------- *)
(* login() on a logged-in session                                          *)
(* ---------------------------------------------------------------------- *)
\* C36: calling login() while the session is already logged in changes
\* nothing: no frame is written, the reader and writer keystreams stay
\* installed, the stored login callback is not replaced and loggedIn stays
\* true.
C36_LoginWhenLoggedInIsNoOp ==
    [][(last'.op = "login" /\ loggedIn) =>
          /\ out' = <<>>
          /\ loggedIn'
          /\ UNCHANGED <<readerSet, writerSet, readerKey, writerKey, loginCallback,
                         challengeFile, queue, messageId, sent, connected, socket>>]_vars

C36_Witness ==
    /\ last.op = "login"
    /\ loggedIn
    /\ out = <<>>
    /\ writerSet # NoKeyStream
    /\ readerSet # NoKeyStream
    /\ ~loginCallback

(* ---------------------------------------------------------------------- *)
(* The connect callback                                                    *)
(* ---------------------------------------------------------------------- *)
\* the positions in effects of the invocations of the connect callback
ConnectCallbackCalls(effects) ==
    { p \in 1..Len(effects) : effects[p].k = "cb" /\ effects[p].name = "connectCallback" }

\* C37: the callback passed to connect(callback) is invoked at most once per
\* connect() call, without error when the transport connects or with the
\* error when connecting fails; it is not invoked again by a later transport
\* error on the established connection, nor by an automatic reconnect. An
\* event invokes it at most once; an error on a socket that had connected
\* does not invoke it; the transport connect that follows the reconnect of
\* onTransportEnd does not invoke it.
C37_ConnectCallbackOnce ==
    [][/\ Cardinality(ConnectCallbackCalls(out')) <= 1
       /\ (last'.op = "onTransportError" /\ socket = "open")
             => ConnectCallbackCalls(out') = {}
       /\ (last.op = "onTransportEnd" /\ last'.op = "onTransportConnect")
             => ConnectCallbackCalls(out') = {}]_vars

(* ---------------------------------------------------------------------- *)
(* Pre-key responses without request                                       *)
(* ---------------------------------------------------------------------- *)
\* C38: a pre-key response whose id does not correspond to a pending key
\* request (never requested, or already consumed by an earlier response) is
\* handled without failure and without marking any JID as skip-encryption or
\* draining any pending queue; processing the same response twice has the
\* same effect as processing it once.
C38_UnknownResponseIgnored ==
    [][(/\ last'.op = "processGetKeysResponse"
        /\ \A r \in enc.pendingGetKeyRequests : r.id # last'.node.id)
          => /\ \A p \in 1..Len(out') : out'[p].k # "throw"
             /\ enc'.skipEncJids = enc.skipEncJids
             /\ enc'.pendingMessages = enc.pendingMessages
             /\ enc'.promises = enc.promises
             /\ UNCHANGED <<jobs, queue, sent>>]_vars

(* ---------------------------------------------------------------------- *)
(* The writer keystream of a login attempt                                 *)
(* ---------------------------------------------------------------------- *)
\* C39: whenever a success node installs the writer keystream, that
\* keystream was created after the most recent login() call, by
\* createAuthData or by the challenge handler of the current attempt; a
\* writer keystream created during an earlier connection is never installed.
C39_WriterKeyOfThisAttempt ==
    [][(last'.op = "processNode" /\ isSuccess(last'.node) /\ writerSet' # NoKeyStream)
          => writerKeyNew]_vars

====
